---- MODULE Spec2Model ----
(***************************************************************************)
(* A model of the RustRayTrace CPU renderer: the axis-aligned bounding     *)
(* boxes, the list aggregate, the BVH builder and traversal of             *)
(* books/the_next_week, and the row-parallel Camera::render.               *)
(*                                                                         *)
(* Numbers.  An f64 is modelled as an exact extended rational: a record    *)
(* [n, d] with d > 0 in lowest terms, or d = 0 for the three IEEE specials *)
(* (n = 1: +inf, n = -1: -inf, n = 0: NaN): the BVH is built and hit on    *)
(* inputs whose sums and products are exact in f64, with lengths in units  *)
(* of 0.00005 (half the padding delta of aabb.rs).  The padding of boxes   *)
(* is where rounding shows: there an f64 is a binary64 value, a sign and a *)
(* magnitude in units of 2^-67, and sums are rounded to 53 bits.           *)
(*                                                                         *)
(* Where the code binds a value with `let` and uses it several times, the  *)
(* model passes it to an operator as a parameter.                          *)
(***************************************************************************)
EXTENDS Integers, Sequences, FiniteSets, TLC

VARIABLES
    \* ---- Aabb construction (SpecAabb) ----
    boxA, boxB, boxR, aop,
    \* ---- list aggregate, BVH build and traversal (Spec) ----
    prims, list, objects, nodes, stack, pc, ray, ray_t, bvh_rec, list_rec,
    \* ---- Camera::render (SpecRender) ----
    rng,        \* per worker thread: the state of its thread_local RNG
    seeds,      \* per worker thread: the seed its RNG got from the entropy source
    task,       \* per worker thread: the row it is rendering, or -1
    rows,       \* per row index: the row collected for it, <<>> while not rendered
    order,      \* <<row index, thread, left>> of the row tasks in the order they completed
    remaining,  \* the atomic count of rows still to render
    out,        \* what has been written to stdout
    rpc,        \* where render is: "idle", "map", "write", "done"
    earlier,    \* <<seeds, out>> of an earlier render, <<>> if there was none
    \* ---- one pixel of the path tracer (SpecPath) ----
    cam,         \* the Camera: samples_per_pixel, max_depth, background
    world,       \* the scene the rays are traced in
    data,        \* CameraInternals: sqrt_spp, pixel_samples_scale
    sample,      \* the number of samples added to pixel_color
    pixel_sum,   \* pixel_color: the sum of the samples of the pixel
    frames,      \* the calls of ray_color that wait for their recursive call
    call,        \* the innermost call of ray_color, or what it returned
    hits,        \* the number of world.hit calls made for the sample
    written,     \* the bytes write_color wrote for the pixel, <<>> before
    ppc,         \* "init", "pixel", "trace", "done"
    \* ---- main, its renderers and their writers (SpecMain) ----
    argv,        \* the book key and the backend of the command line
    gpu_result,  \* what gpu::render_in_one_weekend returned: "none", "ok", "err"
    cpu_book,    \* the book whose run() was called, "none" before
    stderr,      \* the messages printed with eprintln!
    image,       \* the averaged colours of the pixels the writer at work writes
    writer,      \* "gpu": write_ppm_from_accum, "cpu": Camera::render, "none"
    chunk_no,    \* the next write of the writer at work
    bufw,        \* the lines held by the BufWriter
    stdout,      \* the lines that reached the output stream
    failed,      \* the writers that had a write to the stream fail
    mpc,         \* "start", "gpu", "match", "write", "unwind", "exit", "panic"
    \* ---- render overrides (SpecConfig) ----
    overrides,   \* config::OVERRIDES, <<>> before it is fixed
    built,       \* the renderer that set up its camera, and the camera
    \* ---- one split of BvhNode::build (SpecSplit) ----
    cut,         \* the slice build is called on; then what its split computed
    \* ---- the list aggregate of in_one_weekend (Spec) ----
    weekend,     \* the HittableList of in_one_weekend given the calls that list is given
    \* ---- the pass loops of the GPU renderers (SpecPasses) ----
    passes       \* the locals of render around its pass loop, and what the passes summed

aabbVars == <<boxA, boxB, boxR, aop>>
bvhVars == <<prims, list, objects, nodes, stack, pc, ray, ray_t, bvh_rec, list_rec>>
renderVars == <<rng, seeds, task, rows, order, remaining, out, rpc, earlier>>
pathVars == <<cam, world, data, sample, pixel_sum, frames, call, hits, written, ppc>>
mainVars == <<argv, gpu_result, cpu_book, stderr, image, writer, chunk_no, bufw, stdout,
              failed, mpc>>
configVars == <<overrides, built>>
splitVars == <<cut>>
weekendVars == <<weekend>>
passVars == <<passes>>
moreVars == <<splitVars, weekendVars, passVars>>
laterVars == <<pathVars, mainVars, configVars, moreVars>>
vars == <<aabbVars, bvhVars, renderVars, laterVars>>

-----------------------------------------------------------------------------
(* f64 arithmetic *)

Abs(i) == IF i < 0 THEN -i ELSE i

Sign(i) == IF i < 0 THEN -1 ELSE IF i > 0 THEN 1 ELSE 0

RECURSIVE Gcd(_, _)
Gcd(a, b) == IF b = 0 THEN a ELSE Gcd(b, a % b)

\* The f64 with value n/d; n/0 is +inf, -inf or NaN by the sign of n.
Norm(n, d) ==
    IF d = 0 THEN [n |-> Sign(n), d |-> 0]
    ELSE LET g == Gcd(Abs(n), Abs(d))
         IN  [n |-> (Sign(d) * n) \div g, d |-> Abs(d) \div g]

F(i) == [n |-> i, d |-> 1]

INFINITY == [n |-> 1, d |-> 0]

NEG_INFINITY == [n |-> -1, d |-> 0]

NAN == [n |-> 0, d |-> 0]

IsNaN(a) == a.d = 0 /\ a.n = 0

IsFinite(a) == a.d # 0

FNeg(a) == [n |-> -a.n, d |-> a.d]

FAdd(a, b) ==
    IF a.d = 0 /\ b.d = 0
    THEN (IF a.n = b.n THEN a ELSE NAN)
    ELSE Norm(a.n * b.d + b.n * a.d, a.d * b.d)

FSub(a, b) == FAdd(a, FNeg(b))

FMul(a, b) == Norm(a.n * b.n, a.d * b.d)

\* 1.0 / x; the zero of the model is +0.0, whose reciprocal is +inf.
FRecip(a) ==
    IF a.d # 0 /\ a.n = 0 THEN INFINITY
    ELSE Norm(Sign(a.n) * a.d, Abs(a.n))

FDiv(a, b) == FMul(a, FRecip(b))

\* a < b and a <= b; every comparison with NaN is false.
FLt(a, b) ==
    /\ ~IsNaN(a)
    /\ ~IsNaN(b)
    /\ IF a.d = 0 /\ b.d = 0 THEN a.n < b.n ELSE a.n * b.d < b.n * a.d

FLe(a, b) ==
    /\ ~IsNaN(a)
    /\ ~IsNaN(b)
    /\ IF a.d = 0 /\ b.d = 0 THEN a.n <= b.n ELSE a.n * b.d <= b.n * a.d

FGt(a, b) == FLt(b, a)

FGe(a, b) == FLe(b, a)

-----------------------------------------------------------------------------
(* vec3.rs: integer points and vectors <<x, y, z>> *)

VAdd(a, b) == <<a[1] + b[1], a[2] + b[2], a[3] + b[3]>>

VSub(a, b) == <<a[1] - b[1], a[2] - b[2], a[3] - b[3]>>

VScale(k, a) == <<k * a[1], k * a[2], k * a[3]>>

dot(a, b) == a[1] * b[1] + a[2] * b[2] + a[3] * b[3]

cross(a, b) ==
    <<a[2] * b[3] - a[3] * b[2], a[3] * b[1] - a[1] * b[3], a[1] * b[2] - a[2] * b[1]>>

-----------------------------------------------------------------------------
(* interval.rs *)

Interval(lo, hi) == [min |-> lo, max |-> hi]

IntervalEMPTY == Interval(INFINITY, NEG_INFINITY)

from_intervals(a, b) ==
    [min |-> IF FLe(a.min, b.min) THEN a.min ELSE b.min,
     max |-> IF FGe(a.max, b.max) THEN a.max ELSE b.max]

size(i) == FSub(i.max, i.min)

contains(i, x) == FLe(i.min, x) /\ FLe(x, i.max)

surrounds(i, x) == FLt(i.min, x) /\ FLt(x, i.max)

\* let padding = delta / 2.0; Interval::new(self.min - padding, self.max + padding)
expand(i, delta) ==
    Interval(FSub(i.min, FDiv(delta, F(2))), FAdd(i.max, FDiv(delta, F(2))))

IntervalAdd(i, displacement) ==
    Interval(FAdd(i.min, displacement), FAdd(i.max, displacement))

-----------------------------------------------------------------------------
(* aabb.rs *)

\* let delta = 0.0001, in units of 0.00005
Delta == 2

Aabb(x, y, z) == [x |-> x, y |-> y, z |-> z]

AabbEMPTY == Aabb(IntervalEMPTY, IntervalEMPTY, IntervalEMPTY)

\* if self.x.size() < delta { self.x = self.x.expand(delta) }
PadAxis(i) == IF FLt(size(i), F(Delta)) THEN expand(i, F(Delta)) ELSE i

pad_to_minimums(b) == Aabb(PadAxis(b.x), PadAxis(b.y), PadAxis(b.z))

AabbNew(x, y, z) == pad_to_minimums(Aabb(x, y, z))

\* if a[k] <= b[k] { Interval::new(a[k], b[k]) } else { Interval::new(b[k], a[k]) }
OrderedInterval(a, b) == IF a <= b THEN Interval(F(a), F(b)) ELSE Interval(F(b), F(a))

from_points(a, b) ==
    AabbNew(OrderedInterval(a[1], b[1]), OrderedInterval(a[2], b[2]), OrderedInterval(a[3], b[3]))

from_boxes(box0, box1) ==
    AabbNew(from_intervals(box0.x, box1.x),
            from_intervals(box0.y, box1.y),
            from_intervals(box0.z, box1.z))

axis_interval(b, n) == IF n = 1 THEN b.y ELSE IF n = 2 THEN b.z ELSE b.x

\* impl Add<Vec3> for Aabb
AabbAdd(b, offset) ==
    AabbNew(IntervalAdd(b.x, F(offset[1])),
            IntervalAdd(b.y, F(offset[2])),
            IntervalAdd(b.z, F(offset[3])))

longest_axis(b) ==
    IF FGt(size(b.x), size(b.y)) THEN (IF FGt(size(b.x), size(b.z)) THEN 0 ELSE 2)
    ELSE IF FGt(size(b.y), size(b.z)) THEN 1 ELSE 2

\* The body of the slab loop of Aabb::hit once t0 and t1 are computed:
\* the window ray_t after clipping.
ClipWindow(t0, t1, rt) ==
    IF FLt(t0, t1)
    THEN Interval(IF FGt(t0, rt.min) THEN t0 ELSE rt.min,
                  IF FLt(t1, rt.max) THEN t1 ELSE rt.max)
    ELSE Interval(IF FGt(t1, rt.min) THEN t1 ELSE rt.min,
                  IF FLt(t0, rt.max) THEN t0 ELSE rt.max)

RECURSIVE AabbHitFrom(_, _, _, _)

\* if ray_t.max <= ray_t.min { return false }, else the next axis
AabbHitNext(b, r, clipped, axis) ==
    IF FLe(clipped.max, clipped.min) THEN FALSE ELSE AabbHitFrom(b, r, clipped, axis + 1)

\* for axis in 0..3: adinv = 1.0 / ray_dir[axis],
\* t0 = (ax.min - ray_orig[axis]) * adinv, t1 = (ax.max - ray_orig[axis]) * adinv
AabbHitFrom(b, r, rt, axis) ==
    IF axis = 3 THEN TRUE
    ELSE AabbHitNext(b, r,
            ClipWindow(FMul(FSub(axis_interval(b, axis).min, F(r.orig[axis + 1])),
                            FRecip(F(r.dir[axis + 1]))),
                       FMul(FSub(axis_interval(b, axis).max, F(r.orig[axis + 1])),
                            FRecip(F(r.dir[axis + 1]))), rt),
            axis)

AabbHit(b, r, rt) == AabbHitFrom(b, r, rt, 0)

-----------------------------------------------------------------------------
(* The primitives a scene is made of.  A scene holds Arc pointers; an      *)
(* index into Catalog stands for the pointer, and prims[id] is the object  *)
(* its constructor built.  A "list" is a nested HittableList of quads, as  *)
(* make_box builds.                                                        *)

Catalog ==
    << [kind |-> "sphere", center |-> <<0, 0, 0>>, radius |-> 2],
       [kind |-> "sphere", center |-> <<4, 0, 0>>, radius |-> 2],
       [kind |-> "quad", q |-> <<-1, -1, 3>>, u |-> <<2, 0, 0>>, v |-> <<0, 2, 0>>],
       [kind |-> "quad", q |-> <<6, 0, 0>>, u |-> <<2, 0, 2>>, v |-> <<0, 2, 2>>],
       [kind |-> "quad", q |-> <<0, 0, 3>>, u |-> <<3, 0, 0>>, v |-> <<0, 3, 0>>],
       [kind |-> "list", members |-> <<3, 5>>] >>

PrimIds == 1..Len(Catalog)

\* The primitives a scene may add: all but the quad only the nested list holds.
SceneIds == {id \in PrimIds : id # 5}

\* Sphere::new(static_center, radius, mat)
SphereNew(center, radius) ==
    [kind |-> "sphere", center |-> center,
     radius |-> IF radius > 0 THEN radius ELSE 0,
     bbox |-> from_points(VSub(center, <<radius, radius, radius>>),
                          VAdd(center, <<radius, radius, radius>>))]

\* Quad::new(q, u, v, mat) with set_bounding_box; n = cross(u, v)
QuadNew(q, u, v) ==
    [kind |-> "quad", q |-> q, u |-> u, v |-> v, n |-> cross(u, v),
     bbox |-> from_boxes(from_points(q, VAdd(VAdd(q, u), v)),
                         from_points(VAdd(q, u), VAdd(q, v)))]

HittableListNew == [kind |-> "list", objects |-> <<>>, bbox |-> AabbEMPTY]

\* HittableList::add of the object `id`, whose bounding_box() is `box`
add(self, id, box) ==
    [kind |-> "list",
     objects |-> Append(self.objects, id),
     bbox |-> IF Len(self.objects) + 1 = 1 THEN box ELSE from_boxes(self.bbox, box)]

\* HittableList::clear of in_one_weekend: self.objects.clear()
clear_objects(self) == [kind |-> "list", objects |-> <<>>, bbox |-> self.bbox]

\* HittableList::clear of the_next_week: self.objects.clear(); self.bbox = Aabb::EMPTY
clear(self) == [kind |-> "list", objects |-> <<>>, bbox |-> AabbEMPTY]

\* sides.add(Arc::new(Quad::new(..))) for each member in turn
RECURSIVE AddQuads(_, _, _)
AddQuads(members, k, sides) ==
    IF k > Len(members) THEN sides
    ELSE AddQuads(members, k + 1,
            add(sides, members[k],
                QuadNew(Catalog[members[k]].q, Catalog[members[k]].u, Catalog[members[k]].v).bbox))

Construct(c) ==
    CASE c.kind = "sphere" -> SphereNew(c.center, c.radius)
      [] c.kind = "quad" -> QuadNew(c.q, c.u, c.v)
      [] OTHER -> AddQuads(c.members, 1, HittableListNew)

bounding_box(id) == prims[id].bbox

-----------------------------------------------------------------------------
(* hittable.rs: Option<HitRecord>.  Of a record the model keeps t and the  *)
(* primitive that was struck.                                              *)

None == [some |-> FALSE, t |-> NAN, prim |-> 0]

Some(t, id) == [some |-> TRUE, t |-> t, prim |-> id]

IsSquare(x) == \E s \in 0..x : s * s = x

\* f64::sqrt, on the perfect squares the rays of the model produce
Sqrt(x) == CHOOSE s \in 0..x : s * s = x

\* h * h - a * c of Sphere::hit
SphereDiscriminant(center, radius, r) ==
    dot(r.dir, VSub(center, r.orig)) * dot(r.dir, VSub(center, r.orig))
        - dot(r.dir, r.dir) * (dot(VSub(center, r.orig), VSub(center, r.orig)) - radius * radius)

\* A faulty variant of SphereRoot: the far root is returned unchecked.
SphereRootUnchecked(id, root1, root2, rt) ==
    IF surrounds(rt, root1) THEN Some(root1, id) ELSE Some(root2, id)

\* The nearest root that lies in the acceptable range.
SphereRoot(id, root1, root2, rt) ==
    IF surrounds(rt, root1) THEN Some(root1, id)
    ELSE IF surrounds(rt, root2) THEN Some(root2, id)
    ELSE None

SphereHit(id, r, rt) ==
    LET self == prims[id]
        a == dot(r.dir, r.dir)
        h == dot(r.dir, VSub(self.center, r.orig))
        discriminant == SphereDiscriminant(self.center, self.radius, r)
    IN  IF discriminant < 0 THEN None
        ELSE SphereRoot(id, Norm(h - Sqrt(discriminant), a), Norm(h + Sqrt(discriminant), a), rt)

\* is_interior: alpha and beta both in [0, 1]
is_interior(alpha, beta) ==
    contains(Interval(F(0), F(1)), alpha) /\ contains(Interval(F(0), F(1)), beta)

\* Quad::hit from `let t` on.  planar is t.d * (intersection - q); with
\* normal = n/|n| and w = n/(n.n) the quotients are the code's alpha and beta.
QuadHitAt(id, self, r, rt, t) ==
    LET planar == VAdd(VScale(t.d, VSub(r.orig, self.q)), VScale(t.n, r.dir))
    IN  IF ~contains(rt, t) THEN None
        ELSE IF ~is_interior(Norm(dot(self.n, cross(planar, self.v)), dot(self.n, self.n) * t.d),
                             Norm(dot(self.n, cross(self.u, planar)), dot(self.n, self.n) * t.d))
        THEN None
        ELSE Some(t, id)

\* Quad::hit.  denom = n.dir/|n| and t = (d - normal.origin)/denom = n.(q - origin)/n.dir.
\* |denom| < 1e-8 is n.dir = 0: a non-zero integer n.dir gives
\* |denom| >= 0.00005/|n|, far above 1e-8 for the vectors of the model.
QuadHit(id, r, rt) ==
    IF dot(prims[id].n, r.dir) = 0 THEN None
    ELSE QuadHitAt(id, prims[id], r, rt,
                   Norm(dot(prims[id].n, prims[id].q) - dot(prims[id].n, r.orig),
                        dot(prims[id].n, r.dir)))

RECURSIVE PrimHit(_, _, _)
RECURSIVE HittableListHit(_, _, _, _, _, _)

\* if let Some(rec) = object.hit(..) { closest_so_far = rec.t; hit_anything = Some(rec) }
HittableListNext(objs, k, r, rt, closest_so_far, hit_anything, rec) ==
    IF rec.some
    THEN HittableListHit(objs, k + 1, r, rt, rec.t, rec)
    ELSE HittableListHit(objs, k + 1, r, rt, closest_so_far, hit_anything)

\* The loop of HittableList::hit from member k on.
HittableListHit(objs, k, r, rt, closest_so_far, hit_anything) ==
    IF k > Len(objs) THEN hit_anything
    ELSE HittableListNext(objs, k, r, rt, closest_so_far, hit_anything,
                          PrimHit(objs[k], r, Interval(rt.min, closest_so_far)))

ListHit(objs, r, rt) == HittableListHit(objs, 1, r, rt, rt.max, None)

\* Hittable::hit of a primitive, by dynamic dispatch.
PrimHit(id, r, rt) ==
    CASE prims[id].kind = "sphere" -> SphereHit(id, r, rt)
      [] prims[id].kind = "quad" -> QuadHit(id, r, rt)
      [] OTHER -> ListHit(prims[id].objects, r, rt)

-----------------------------------------------------------------------------
(* bvh.rs: BvhNode::build *)

NUM_BUCKETS == 12

\* 1e-12, in units of 0.00005
DegenerateEps == Norm(1, 50000000)

FAbs(a) == [n |-> Abs(a.n), d |-> a.d]

AreaOf(dx, dy, dz) == FMul(F(2), FAdd(FAdd(FMul(dx, dy), FMul(dy, dz)), FMul(dz, dx)))

\* Aabb::surface_area is called by build and defined in no file of src/:
\* the area of the box's six faces, as the SAH cost of the design uses it.
surface_area(b) == AreaOf(size(b.x), size(b.y), size(b.z))

\* A faulty variant of UnionOfBoxes: the loop stops one object short.
RECURSIVE UnionOfBoxesButLast(_, _, _)
UnionOfBoxesButLast(objs, k, bbox) ==
    IF k >= Len(objs) THEN bbox
    ELSE UnionOfBoxesButLast(objs, k + 1, from_boxes(bbox, bounding_box(objs[k])))

\* for object in objects.iter() { bbox = Aabb::from_boxes(bbox, object.bounding_box()) }
RECURSIVE UnionOfBoxes(_, _, _)
UnionOfBoxes(objs, k, bbox) ==
    IF k > Len(objs) THEN bbox
    ELSE UnionOfBoxes(objs, k + 1, from_boxes(bbox, bounding_box(objs[k])))

\* A faulty variant of comparator: the centroids are compared.
comparatorByCentroid(a, b, axis) ==
    IF FLt(FAdd(axis_interval(bounding_box(a), axis).min, axis_interval(bounding_box(a), axis).max),
           FAdd(axis_interval(bounding_box(b), axis).min, axis_interval(bounding_box(b), axis).max))
    THEN "Less"
    ELSE IF FGt(FAdd(axis_interval(bounding_box(a), axis).min,
                     axis_interval(bounding_box(a), axis).max),
                FAdd(axis_interval(bounding_box(b), axis).min,
                     axis_interval(bounding_box(b), axis).max))
    THEN "Greater"
    ELSE "Equal"

\* a_axis.min.partial_cmp(&b_axis.min).unwrap_or(Ordering::Equal)
comparator(a, b, axis) ==
    IF FLt(axis_interval(bounding_box(a), axis).min, axis_interval(bounding_box(b), axis).min)
    THEN "Less"
    ELSE IF FGt(axis_interval(bounding_box(a), axis).min, axis_interval(bounding_box(b), axis).min)
    THEN "Greater"
    ELSE "Equal"

\* slice::sort_by is a stable sort: each item goes behind the items that
\* were before it and do not compare greater than it.
RECURSIVE InsertStable(_, _, _, _)
InsertStable(sorted, x, axis, k) ==
    IF k > Len(sorted) THEN Append(sorted, x)
    ELSE IF comparator(x, sorted[k], axis) = "Less"
         THEN SubSeq(sorted, 1, k - 1) \o <<x>> \o SubSeq(sorted, k, Len(sorted))
         ELSE InsertStable(sorted, x, axis, k + 1)

RECURSIVE SortFrom(_, _, _, _)
SortFrom(objs, axis, k, sorted) ==
    IF k > Len(objs) THEN sorted
    ELSE SortFrom(objs, axis, k + 1, InsertStable(sorted, objs[k], axis, 1))

sort_by(objs, axis) == SortFrom(objs, axis, 1, <<>>)

\* 0.5 * (b.axis_interval(axis).min + b.axis_interval(axis).max)
centroid(id, axis) ==
    FMul(Norm(1, 2), FAdd(axis_interval(bounding_box(id), axis).min,
                          axis_interval(bounding_box(id), axis).max))

RECURSIVE CentroidMin(_, _, _, _)
CentroidMin(objs, axis, k, centroid_min) ==
    IF k > Len(objs) THEN centroid_min
    ELSE CentroidMin(objs, axis, k + 1,
            IF FLt(centroid(objs[k], axis), centroid_min) THEN centroid(objs[k], axis)
            ELSE centroid_min)

RECURSIVE CentroidMax(_, _, _, _)
CentroidMax(objs, axis, k, centroid_max) ==
    IF k > Len(objs) THEN centroid_max
    ELSE CentroidMax(objs, axis, k + 1,
            IF FGt(centroid(objs[k], axis), centroid_max) THEN centroid(objs[k], axis)
            ELSE centroid_max)

\* `x as usize` clamped to NUM_BUCKETS - 1.  The cast truncates, sends NaN
\* and negatives to 0 and saturates +inf, which the clamp brings down.
ClampBucket(x) ==
    IF x.d = 0 THEN (IF x.n > 0 THEN NUM_BUCKETS - 1 ELSE 0)
    ELSE IF x.n < 0 THEN 0
    ELSE IF x.n \div x.d >= NUM_BUCKETS THEN NUM_BUCKETS - 1
    ELSE x.n \div x.d

\* ((centroid - centroid_min) / (centroid_max - centroid_min) * NUM_BUCKETS as f64) as usize
BucketIndex(id, axis, centroid_min, centroid_max) ==
    ClampBucket(FMul(FDiv(FSub(centroid(id, axis), centroid_min),
                          FSub(centroid_max, centroid_min)), F(NUM_BUCKETS)))

Bucket(count, bbox) == [count |-> count, bbox |-> bbox]

\* buckets[idx].count += 1; buckets[idx].bbox = Aabb::from_boxes(buckets[idx].bbox, b)
RECURSIVE FillBuckets(_, _, _, _, _, _)
FillBuckets(objs, axis, cmin, cmax, k, buckets) ==
    IF k > Len(objs) THEN buckets
    ELSE FillBuckets(objs, axis, cmin, cmax, k + 1,
            [buckets EXCEPT ![BucketIndex(objs[k], axis, cmin, cmax)] =
                Bucket(@.count + 1, from_boxes(@.bbox, bounding_box(objs[k])))])

\* accum_count += buckets[i].count; accum_bbox = Aabb::from_boxes(accum_bbox, buckets[i].bbox)
Accumulate(accum, bucket) ==
    Bucket(accum.count + bucket.count, from_boxes(accum.bbox, bucket.bbox))

\* right_count[i], right_bbox[i]: the buckets from the top down to i.
RECURSIVE RightAccum(_, _)
RightAccum(buckets, i) ==
    Accumulate(IF i = NUM_BUCKETS - 1 THEN Bucket(0, AabbEMPTY) ELSE RightAccum(buckets, i + 1),
               buckets[i])

\* A faulty variant of BetterSplit: a boundary of equal cost replaces the best.
BetterSplitOrEqual(best, cost, i) ==
    IF FLe(cost, best.cost) THEN [cost |-> cost, split |-> i] ELSE best

\* if cost < best_cost { best_cost = cost; best_split = i }
BetterSplit(best, cost, i) ==
    IF FLt(cost, best.cost) THEN [cost |-> cost, split |-> i] ELSE best

RECURSIVE SahScan(_, _, _, _)

\* Boundary i, once left_count and left_bbox include bucket i:
\* cost = left_bbox.surface_area() * left_count as f64 + right_bbox.surface_area() * right_count as f64
SahBoundary(buckets, i, left, right, best) ==
    SahScan(buckets, i + 1, left,
            IF left.count = 0 \/ right.count = 0 THEN best
            ELSE BetterSplit(best,
                    FAdd(FMul(surface_area(left.bbox), F(left.count)),
                         FMul(surface_area(right.bbox), F(right.count))), i))

\* for i in 0..(NUM_BUCKETS - 1), from boundary i on; left0 is the
\* accumulation over the buckets below i.
SahScan(buckets, i, left0, best) ==
    IF i >= NUM_BUCKETS - 1 THEN best
    ELSE SahBoundary(buckets, i, Accumulate(left0, buckets[i]), RightAccum(buckets, i + 1), best)

swap(objs, i, j) == [objs EXCEPT ![i] = objs[j], ![j] = objs[i]]

\* A faulty variant of PartitionLoop: mid advances without the swap.
RECURSIVE PartitionLoopNoSwap(_, _, _, _, _, _, _)
PartitionLoopNoSwap(objs, axis, cmin, cmax, best_split, k, mid) ==
    IF k > Len(objs) THEN [objs |-> objs, mid |-> mid]
    ELSE IF BucketIndex(objs[k], axis, cmin, cmax) <= best_split
         THEN PartitionLoopNoSwap(objs, axis, cmin, cmax, best_split, k + 1, mid + 1)
         ELSE PartitionLoopNoSwap(objs, axis, cmin, cmax, best_split, k + 1, mid)

\* A faulty variant of PartitionLoop: the bucket of the split goes right.
RECURSIVE PartitionLoopStrict(_, _, _, _, _, _, _)
PartitionLoopStrict(objs, axis, cmin, cmax, best_split, k, mid) ==
    IF k > Len(objs) THEN [objs |-> objs, mid |-> mid]
    ELSE IF BucketIndex(objs[k], axis, cmin, cmax) < best_split
         THEN PartitionLoopStrict(swap(objs, k, mid + 1), axis, cmin, cmax, best_split,
                                  k + 1, mid + 1)
         ELSE PartitionLoopStrict(objs, axis, cmin, cmax, best_split, k + 1, mid)

\* The in-place partition: for i in 0..object_span (k = i + 1, mid counted from 0).
RECURSIVE PartitionLoop(_, _, _, _, _, _, _)
PartitionLoop(objs, axis, cmin, cmax, best_split, k, mid) ==
    IF k > Len(objs) THEN [objs |-> objs, mid |-> mid]
    ELSE IF BucketIndex(objs[k], axis, cmin, cmax) <= best_split
         THEN PartitionLoop(swap(objs, k, mid + 1), axis, cmin, cmax, best_split, k + 1, mid + 1)
         ELSE PartitionLoop(objs, axis, cmin, cmax, best_split, k + 1, mid)

\* objects.sort_by(comparator); let mid = object_span / 2  (`how` names the branch taken)
MedianSplit(objs, axis, how) ==
    [objs |-> sort_by(objs, axis), mid |-> Len(objs) \div 2, how |-> how]

\* if mid == 0 || mid == object_span { median split } else { split at mid }
SplitPartitioned(part, axis) ==
    IF part.mid = 0 \/ part.mid = Len(part.objs)
    THEN MedianSplit(part.objs, axis, "degenerate partition")
    ELSE [objs |-> part.objs, mid |-> part.mid, how |-> "sah"]

\* if !best_cost.is_finite() { median split } else { partition }
SplitAtBest(objs, axis, cmin, cmax, best) ==
    IF ~IsFinite(best.cost)
    THEN MedianSplit(objs, axis, "no finite split")
    ELSE SplitPartitioned(PartitionLoop(objs, axis, cmin, cmax, best.split, 1, 0), axis)

\* if (centroid_max - centroid_min).abs() < 1e-12 { median split } else { buckets, SAH scan }
SplitBetween(objs, axis, cmin, cmax) ==
    IF FLt(FAbs(FSub(cmax, cmin)), DegenerateEps)
    THEN MedianSplit(objs, axis, "degenerate centroids")
    ELSE SplitAtBest(objs, axis, cmin, cmax,
            SahScan(FillBuckets(objs, axis, cmin, cmax, 1,
                                [i \in 0..(NUM_BUCKETS - 1) |-> Bucket(0, AabbEMPTY)]),
                    0, Bucket(0, AabbEMPTY), [cost |-> INFINITY, split |-> 0]))

\* The branch of build for a span other than 1 and 2: the slice as it is
\* left permuted, and the index mid the two recursive calls split it at.
BuildSplit(objs, bbox) ==
    SplitBetween(objs, longest_axis(bbox),
                 CentroidMin(objs, longest_axis(bbox), 1, INFINITY),
                 CentroidMax(objs, longest_axis(bbox), 1, NEG_INFINITY))

-----------------------------------------------------------------------------
(* bvh.rs: the tree.  A child is an Arc<dyn Hittable>: a primitive or a    *)
(* BvhNode; nodes[id] is the node that the call numbered id returned.      *)

PrimRef(id) == [node |-> FALSE, id |-> id]

NodeRef(id) == [node |-> TRUE, id |-> id]

\* Self { left, right, bbox }; lo, len and how record the slice the node
\* was built from and the branch of build that split it.
BvhNode(left, right, bbox, lo, len, how) ==
    [left |-> left, right |-> right, bbox |-> bbox, lo |-> lo, len |-> len, how |-> how]

\* hit_right.or(hit_left)
Or(hit_right, hit_left) == IF hit_right.some THEN hit_right ELSE hit_left

RECURSIVE RefHit(_, _, _)

\* Some(ref rec) => self.right.hit(r, Interval::new(ray_t.min, rec.t)), None => self.right.hit(r, ray_t)
HitRight(right, r, rt, hit_left) ==
    Or(RefHit(right, r, IF hit_left.some THEN Interval(rt.min, hit_left.t) ELSE rt), hit_left)

\* BvhNode::hit
NodeHit(self, r, rt) ==
    IF ~AabbHit(self.bbox, r, rt) THEN None
    ELSE HitRight(self.right, r, rt, RefHit(self.left, r, rt))

\* Hittable::hit through an Arc<dyn Hittable>
RefHit(ref, r, rt) ==
    IF ref.node THEN NodeHit(nodes[ref.id], r, rt) ELSE PrimHit(ref.id, r, rt)

-----------------------------------------------------------------------------
(* Scenes, rays and query intervals of the model *)

MaxObjects == 3

\* Calls of build that fit on the call stack.  A build whose calls each
\* take a shorter slice is never deeper than its number of objects.
StackLimit == MaxObjects + 1

Ray(orig, dir) == [orig |-> orig, dir |-> dir]

\* The rays whose discriminant against every sphere is negative or a perfect
\* square, so that Sqrt is exact.
Rays ==
    {r \in {Ray(o, d) : o \in {<<0, 0, 5>>, <<2, 0, 5>>, <<-1, 1, 5>>, <<-5, 0, 0>>,
                                 <<5, 1, -1>>, <<7, 1, 6>>},
                        d \in {<<0, 0, -1>>, <<1, 0, 0>>, <<1, -1, 1>>, <<0, 0, 1>>}} :
        \A id \in {1, 2} :
            \/ SphereDiscriminant(Catalog[id].center, Catalog[id].radius, r) < 0
            \/ IsSquare(SphereDiscriminant(Catalog[id].center, Catalog[id].radius, r))}

\* Interval::new(0.001, INFINITY) of Camera::ray_color, and two bounded windows
RayTs == {Interval(Norm(1, 1000), INFINITY), Interval(F(0), F(5)), Interval(F(2), F(3))}

-----------------------------------------------------------------------------
(* The scene is put together, the BVH is built from it, rays are cast.     *)
(* build recurses; the model keeps its pending calls on `stack`.           *)

\* A call of build on objects[lo .. lo + len), at recursion depth `depth`,
\* made by a call whose own slice had caller_len objects.
Frame(id, lo, len, depth, caller_len) ==
    [id |-> id, lo |-> lo, len |-> len, depth |-> depth, caller_len |-> caller_len]

InitBvh ==
    /\ prims = [id \in PrimIds |-> Construct(Catalog[id])]
    /\ list = HittableListNew
    /\ objects = <<>>
    /\ nodes = <<>>
    /\ stack = <<>>
    /\ pc = "scene"
    /\ ray = Ray(<<0, 0, 0>>, <<0, 0, 0>>)
    /\ ray_t = IntervalEMPTY
    /\ bvh_rec = None
    /\ list_rec = None
    /\ weekend = HittableListNew

\* world.add(object), on the list of either book
Add(id) ==
    /\ pc = "scene"
    /\ Len(list.objects) < MaxObjects
    /\ list' = add(list, id, bounding_box(id))
    /\ weekend' = add(weekend, id, bounding_box(id))
    /\ UNCHANGED <<prims, objects, nodes, stack, pc, ray, ray_t, bvh_rec, list_rec>>
    /\ UNCHANGED <<aabbVars, renderVars, pathVars, mainVars, configVars, splitVars, passVars>>

\* world.clear(), on the list of either book
Clear ==
    /\ pc = "scene"
    /\ list.objects # <<>>
    /\ list' = clear(list)
    /\ weekend' = clear_objects(weekend)
    /\ UNCHANGED <<prims, objects, nodes, stack, pc, ray, ray_t, bvh_rec, list_rec>>
    /\ UNCHANGED <<aabbVars, renderVars, pathVars, mainVars, configVars, splitVars, passVars>>

\* BvhNode::new(list): let mut objects = list.objects; Self::build(&mut objects)
New ==
    /\ pc = "scene"
    /\ objects' = list.objects
    /\ stack' = <<Frame(1, 0, Len(list.objects), 1, Len(list.objects) + 1)>>
    /\ pc' = "build"
    /\ UNCHANGED <<prims, list, nodes, ray, ray_t, bvh_rec, list_rec>>
    /\ UNCHANGED <<aabbVars, renderVars, laterVars>>

\* object_span == 1 or 2: the call returns a node over the primitives themselves
BuildLeaf(f, left, right, bbox) ==
    /\ nodes' = nodes @@ (f.id :> BvhNode(PrimRef(left), PrimRef(right), bbox, f.lo, f.len, "leaf"))
    /\ stack' = Tail(stack)
    /\ pc' = IF Tail(stack) = <<>> THEN "built" ELSE "build"
    /\ UNCHANGED objects

\* A faulty variant of BuildInner: the second call starts where the first does.
BuildInnerOverlap(f, split, bbox, next) ==
    /\ objects' = SubSeq(objects, 1, f.lo) \o split.objs
                    \o SubSeq(objects, f.lo + f.len + 1, Len(objects))
    /\ nodes' = nodes @@ (f.id :> BvhNode(NodeRef(next), NodeRef(next + 1), bbox,
                                          f.lo, f.len, split.how))
    /\ stack' = <<Frame(next, f.lo, split.mid, f.depth + 1, f.len),
                  Frame(next + 1, f.lo, f.len - split.mid, f.depth + 1, f.len)>>
                    \o Tail(stack)
    /\ pc' = "build"

\* Any other span: the slice is permuted in place and the call makes two
\* calls, on objects[..mid] and objects[mid..], whose nodes are its children.
BuildInner(f, split, bbox, next) ==
    /\ objects' = SubSeq(objects, 1, f.lo) \o split.objs
                    \o SubSeq(objects, f.lo + f.len + 1, Len(objects))
    /\ nodes' = nodes @@ (f.id :> BvhNode(NodeRef(next), NodeRef(next + 1), bbox,
                                          f.lo, f.len, split.how))
    /\ stack' = <<Frame(next, f.lo, split.mid, f.depth + 1, f.len),
                  Frame(next + 1, f.lo + split.mid, f.len - split.mid, f.depth + 1, f.len)>>
                    \o Tail(stack)
    /\ pc' = "build"

\* A faulty variant of BuildCall: a span of two is treated like a span of one.
BuildCallPairAsSingle(f, slice, bbox) ==
    IF f.len = 1 \/ f.len = 2 THEN BuildLeaf(f, slice[1], slice[1], bbox)
    ELSE IF f.depth >= StackLimit THEN pc' = "overflow" /\ UNCHANGED <<objects, nodes, stack>>
    ELSE BuildInner(f, BuildSplit(slice, bbox), bbox,
                    Cardinality(DOMAIN nodes) + Len(stack) + 1)

\* let (left, right) = if object_span == 1 {..} else if object_span == 2 {..} else {..}
\* A call that does not fit on the stack ends the process with a stack overflow.
BuildCall(f, slice, bbox) ==
    IF f.len = 1 THEN BuildLeaf(f, slice[1], slice[1], bbox)
    ELSE IF f.len = 2 THEN BuildLeaf(f, slice[1], slice[2], bbox)
    ELSE IF f.depth >= StackLimit THEN pc' = "overflow" /\ UNCHANGED <<objects, nodes, stack>>
    ELSE BuildInner(f, BuildSplit(slice, bbox), bbox,
                    Cardinality(DOMAIN nodes) + Len(stack) + 1)

\* One call of BvhNode::build: the oldest pending one, as the recursion runs.
Build ==
    /\ pc = "build"
    /\ BuildCall(Head(stack),
                 SubSeq(objects, Head(stack).lo + 1, Head(stack).lo + Head(stack).len),
                 UnionOfBoxes(SubSeq(objects, Head(stack).lo + 1, Head(stack).lo + Head(stack).len),
                              1, AabbEMPTY))
    /\ UNCHANGED <<prims, list, ray, ray_t, bvh_rec, list_rec>>
    /\ UNCHANGED <<aabbVars, renderVars, laterVars>>

\* A ray is cast at the tree and, for comparison, at the list it was built
\* from.  hit takes &self and leaves the tree as it is, so a behavior casts one ray.
Hit(r, rt) ==
    /\ pc = "built"
    /\ ray' = r
    /\ ray_t' = rt
    /\ bvh_rec' = RefHit(NodeRef(1), r, rt)
    /\ list_rec' = ListHit(list.objects, r, rt)
    /\ pc' = "hit"
    /\ UNCHANGED <<prims, list, objects, nodes, stack>>
    /\ UNCHANGED <<aabbVars, renderVars, laterVars>>

-----------------------------------------------------------------------------
(* f64 as IEEE binary64, for the padding of boxes, where one rounding     *)
(* decides whether a size reaches 0.0001.  A finite value is a sign and a  *)
(* magnitude in units of 2^-67, held in three limbs <<lo, mid, hi>> of 26  *)
(* bits; an infinity has a magnitude above every finite one.  Sums are     *)
(* rounded to 53 significant bits, to nearest, ties to even.               *)

Limb == 2 ^ 26

B64(neg, m) == [k |-> "fin", neg |-> neg, m |-> m]

BInf(neg) == [k |-> "inf", neg |-> neg, m |-> <<0, 0, 2 ^ 30>>]

\* The f64 of a small integer: i * 2^67 = (i * 2^15) * 2^52
BFromInt(i) == B64(i < 0, <<0, 0, Abs(i) * 2 ^ 15>>)

\* Carries (or borrows) taken from limb to limb.
Normalize(m) ==
    <<m[1] % Limb, (m[2] + m[1] \div Limb) % Limb, m[3] + (m[2] + m[1] \div Limb) \div Limb>>

MagLt(a, b) ==
    \/ a[3] < b[3]
    \/ a[3] = b[3] /\ a[2] < b[2]
    \/ a[3] = b[3] /\ a[2] = b[2] /\ a[1] < b[1]

\* Round a magnitude whose low limb has k bits too many for 53 significant bits.
RoundLow(m, k) ==
    IF k = 0 THEN m
    ELSE IF \/ m[1] % 2 ^ k > 2 ^ (k - 1)
            \/ m[1] % 2 ^ k = 2 ^ (k - 1) /\ (m[1] \div 2 ^ k) % 2 = 1
         THEN Normalize(<<(m[1] \div 2 ^ k + 1) * 2 ^ k, m[2], m[3]>>)
         ELSE <<(m[1] \div 2 ^ k) * 2 ^ k, m[2], m[3]>>

\* The nearest f64: bits 0..51 lie in lo and mid, so a magnitude with a high
\* limb of b bits has b + 52 bits, b - 1 too many.
Round(m) ==
    IF m[3] = 0 THEN m
    ELSE RoundLow(m, CHOOSE k \in 0..30 : 2 ^ k <= m[3] /\ m[3] < 2 ^ (k + 1))

\* f64 addition
BAdd(x, y) ==
    IF x.k = "nan" \/ y.k = "nan" THEN [k |-> "nan", neg |-> FALSE, m |-> <<0, 0, 0>>]
    ELSE IF x.k = "inf"
    THEN (IF y.k = "inf" /\ y.neg # x.neg
          THEN [k |-> "nan", neg |-> FALSE, m |-> <<0, 0, 0>>] ELSE x)
    ELSE IF y.k = "inf" THEN y
    ELSE IF x.neg = y.neg
    THEN B64(x.neg, Round(Normalize(<<x.m[1] + y.m[1], x.m[2] + y.m[2], x.m[3] + y.m[3]>>)))
    ELSE IF x.m = y.m THEN B64(FALSE, <<0, 0, 0>>)
    ELSE IF MagLt(x.m, y.m)
    THEN B64(y.neg, Round(Normalize(<<y.m[1] - x.m[1], y.m[2] - x.m[2], y.m[3] - x.m[3]>>)))
    ELSE B64(x.neg, Round(Normalize(<<x.m[1] - y.m[1], x.m[2] - y.m[2], x.m[3] - y.m[3]>>)))

\* f64 subtraction
BSub(x, y) == BAdd(x, [y EXCEPT !.neg = ~@])

\* f64 <
BLt(x, y) ==
    /\ x.k # "nan"
    /\ y.k # "nan"
    /\ IF x.neg = y.neg
       THEN (IF x.neg THEN MagLt(y.m, x.m) ELSE MagLt(x.m, y.m))
       ELSE x.neg /\ (x.m # <<0, 0, 0>> \/ y.m # <<0, 0, 0>>)

\* f64 <=
BLe(x, y) == x.k # "nan" /\ y.k # "nan" /\ ~BLt(y, x)

\* let delta = 0.0001: the f64 0x1.a36e2eb1c432dp-14
Delta64 == B64(FALSE, <<37258842, 18575733, 3>>)

-----------------------------------------------------------------------------
(* interval.rs and aabb.rs: the construction of boxes, in binary64 *)

AabbEMPTY64 ==
    Aabb(Interval(BInf(FALSE), BInf(TRUE)), Interval(BInf(FALSE), BInf(TRUE)),
         Interval(BInf(FALSE), BInf(TRUE)))

size64(i) == BSub(i.max, i.min)

\* let padding = delta / 2.0 (halving an f64 is exact); self.min - padding, self.max + padding
expand64(i, delta) ==
    Interval(BSub(i.min, B64(FALSE, <<delta.m[1] \div 2 + (delta.m[2] % 2) * 2 ^ 25,
                                      delta.m[2] \div 2 + (delta.m[3] % 2) * 2 ^ 25,
                                      delta.m[3] \div 2>>)),
             BAdd(i.max, B64(FALSE, <<delta.m[1] \div 2 + (delta.m[2] % 2) * 2 ^ 25,
                                      delta.m[2] \div 2 + (delta.m[3] % 2) * 2 ^ 25,
                                      delta.m[3] \div 2>>)))

\* A faulty variant of PadAxis64: a thin axis is left as it is.
PadAxis64Never(i) == i

\* if self.x.size() < delta { self.x = self.x.expand(delta) }
PadAxis64(i) == IF BLt(size64(i), Delta64) THEN expand64(i, Delta64) ELSE i

\* Aabb::new: Self { x, y, z } and pad_to_minimums
AabbNew64(x, y, z) == Aabb(PadAxis64(x), PadAxis64(y), PadAxis64(z))

OrderedInterval64(a, b) == IF BLe(a, b) THEN Interval(a, b) ELSE Interval(b, a)

from_points64(a, b) ==
    AabbNew64(OrderedInterval64(BFromInt(a[1]), BFromInt(b[1])),
              OrderedInterval64(BFromInt(a[2]), BFromInt(b[2])),
              OrderedInterval64(BFromInt(a[3]), BFromInt(b[3])))

\* A faulty variant of from_intervals64: the max of the first interval is kept.
from_intervals64FirstMax(a, b) ==
    [min |-> IF BLe(a.min, b.min) THEN a.min ELSE b.min, max |-> a.max]

from_intervals64(a, b) ==
    [min |-> IF BLe(a.min, b.min) THEN a.min ELSE b.min,
     max |-> IF BLe(b.max, a.max) THEN a.max ELSE b.max]

from_boxes64(box0, box1) ==
    AabbNew64(from_intervals64(box0.x, box1.x),
              from_intervals64(box0.y, box1.y),
              from_intervals64(box0.z, box1.z))

\* impl Add<f64> for Interval
IntervalAdd64(i, displacement) ==
    Interval(BAdd(i.min, displacement), BAdd(i.max, displacement))

\* impl Add<Vec3> for Aabb
AabbAdd64(b, offset) ==
    AabbNew64(IntervalAdd64(b.x, BFromInt(offset[1])),
              IntervalAdd64(b.y, BFromInt(offset[2])),
              IntervalAdd64(b.z, BFromInt(offset[3])))

-----------------------------------------------------------------------------
(* Boxes are built from points, united and shifted (SpecAabb).  boxA and   *)
(* boxB hold the last two boxes built from points or set empty, boxR the   *)
(* last union or shifted box, aop the constructor that ran last.           *)

\* 555 is the side of the Cornell box, whose walls are flat quads.
Points == {<<x, y, z>> : x \in {0, 555}, y \in {0, 555}, z \in {0, 555}}

\* The offsets of the two translated boxes of the Cornell box scene.
Offsets == {<<265, 0, 295>>, <<130, 0, 65>>}

InitAabb ==
    /\ boxA = AabbEMPTY64
    /\ boxB = AabbEMPTY64
    /\ boxR = AabbEMPTY64
    /\ aop = "EMPTY"

\* Aabb::from_points(a, b)
AabbFromPoints(a, b) ==
    /\ boxA' = from_points64(a, b)
    /\ boxB' = boxA
    /\ boxR' = AabbEMPTY64
    /\ aop' = "from_points"
    /\ UNCHANGED <<bvhVars, renderVars, laterVars>>

\* bbox: Aabb::EMPTY
AabbEmpty ==
    /\ boxA' = AabbEMPTY64
    /\ boxB' = boxA
    /\ boxR' = AabbEMPTY64
    /\ aop' = "EMPTY"
    /\ UNCHANGED <<bvhVars, renderVars, laterVars>>

\* Aabb::from_boxes(box0, box1)
AabbFromBoxes ==
    /\ boxR' = from_boxes64(boxA, boxB)
    /\ aop' = "from_boxes"
    /\ UNCHANGED <<boxA, boxB>>
    /\ UNCHANGED <<bvhVars, renderVars, laterVars>>

\* bbox + offset
AabbPlus(offset) ==
    /\ boxR' = AabbAdd64(boxA, offset)
    /\ aop' = "add"
    /\ UNCHANGED <<boxA, boxB>>
    /\ UNCHANGED <<bvhVars, renderVars, laterVars>>

-----------------------------------------------------------------------------
(* Camera::render (SpecRender): the rows of the image are rendered as      *)
(* parallel tasks on the threads of the rayon pool, collected by index and *)
(* written to stdout.  The world is empty, so every ray sees the sky.      *)
(* A random number is a multiple of 1/8, a colour component a multiple of  *)
(* 1 / (80 * image_height).                                                 *)

\* The camera of the run (image_height as initialize() computes it).
Camera == [image_width |-> 2, image_height |-> 2, samples_per_pixel |-> 1]

NumThreads == 2

NumSeeds == 2

Threads == 0..(NumThreads - 1)

RowIndices == 0..(Camera.image_height - 1)

\* SmallRng stepping once: a generator of full period over the eighths of [0, 1).
random_double(s) == (5 * s + 3) % 8

\* The sky for a ray through a sample at height j + offset.y, offset.y being
\* dy / 8 - 0.5: a blend of white and (0.5, 0.7, 1.0), linear in the height.
ray_color(j, dy) ==
    <<40 * Camera.image_height + 5 * (8 * j + dy),
      56 * Camera.image_height + 3 * (8 * j + dy),
      80 * Camera.image_height>>

\* The greatest k in lo..hi with k * k <= n (lo * lo <= n).
RECURSIVE SqrtFloor(_, _, _)
SqrtFloor(n, lo, hi) ==
    IF lo = hi THEN lo
    ELSE IF ((lo + hi + 1) \div 2) * ((lo + hi + 1) \div 2) <= n
         THEN SqrtFloor(n, (lo + hi + 1) \div 2, hi)
         ELSE SqrtFloor(n, lo, (lo + hi + 1) \div 2 - 1)

\* A faulty variant of ColorByte: 1.0 and more is not clamped to 0.999.
ColorByteUnclamped(c) ==
    IF ~FGt(c, F(0)) THEN 0
    ELSE IF FGe(c, F(1)) THEN 256
    ELSE SqrtFloor(256 * ((256 * c.n) \div c.d) + (256 * ((256 * c.n) % c.d)) \div c.d, 0, 255)

\* One channel of write_color: linear_to_gamma (the square root of a component
\* above 0, else 0), clamped to [0, 0.999], then (256.0 * x) as i32.
ColorByte(c) ==
    IF ~FGt(c, F(0)) THEN 0
    ELSE IF FGe(c, F(1)) THEN 255
    ELSE SqrtFloor(256 * ((256 * c.n) \div c.d) + (256 * ((256 * c.n) % c.d)) \div c.d, 0, 255)

write_color(pixel_color) ==
    <<ColorByte(pixel_color[1]), ColorByte(pixel_color[2]), ColorByte(pixel_color[3])>>

\* for _ in 0..samples_per_pixel { pixel_color += ray_color(get_ray(i, j)) }:
\* get_ray draws offset.x and then offset.y from the thread's generator.
RECURSIVE PixelColor(_, _, _, _)
PixelColor(j, s, n, pixel_color) ==
    IF n = 0
    THEN [color |-> pixel_color, rng |-> s]
    ELSE PixelColor(j, random_double(random_double(s)), n - 1,
                    VAdd(pixel_color, ray_color(j, random_double(random_double(s)))))

\* A line of the output, with the pixel it is for:
\* write_color(&mut row, data.pixel_samples_scale * pixel_color).
PixelLine(i, j, sampled) ==
    [i |-> i, j |-> j, rng |-> sampled.rng,
     rgb |-> write_color(
         <<Norm(sampled.color[1], 80 * Camera.image_height * Camera.samples_per_pixel),
           Norm(sampled.color[2], 80 * Camera.image_height * Camera.samples_per_pixel),
           Norm(sampled.color[3], 80 * Camera.image_height * Camera.samples_per_pixel)>>)]

\* for i in 0..self.image_width { ... write_color(&mut row, ...) }
RECURSIVE RowFrom(_, _, _, _)
RowFrom(j, i, s, row) ==
    IF i = Camera.image_width
    THEN [row |-> row, rng |-> s]
    ELSE RowFrom(j, i + 1,
                 PixelLine(i, j, PixelColor(j, s, Camera.samples_per_pixel, <<0, 0, 0>>)).rng,
                 Append(row, [f \in {"i", "j", "rgb"} |->
                     PixelLine(i, j, PixelColor(j, s, Camera.samples_per_pixel, <<0, 0, 0>>))[f]]))

\* A faulty variant of collect: the rows in the order their tasks completed.
collectAsCompleted(rs, done, j, row) == [rs EXCEPT ![Len(done)] = row]

\* (0..image_height).into_par_iter().map(..).collect(): the row of index j at place j
collect(rs, done, j, row) == [rs EXCEPT ![j] = row]

\* writeln!(out, "P3\n{} {}\n255", self.image_width, data.image_height)
Header == <<"P3", Camera.image_width, Camera.image_height, 255>>

InitRender ==
    /\ rng = [th \in Threads |-> 0]
    /\ seeds = [th \in Threads |-> 0]
    /\ task = [th \in Threads |-> -1]
    /\ rows = [j \in RowIndices |-> <<>>]
    /\ order = <<>>
    /\ remaining = 0
    /\ out = <<>>
    /\ rpc = "idle"
    /\ earlier = <<>>

\* A run of the program up to the parallel map of render: each worker
\* thread's RNG is SmallRng::from_entropy().
Render ==
    /\ rpc = "idle" \/ (rpc = "done" /\ earlier = <<>>)
    /\ earlier' = IF rpc = "done" THEN <<seeds, out>> ELSE earlier
    /\ \E sd \in [Threads -> 0..(NumSeeds - 1)] :
        /\ seeds' = sd
        /\ rng' = sd
    /\ task' = [th \in Threads |-> -1]
    /\ rows' = [j \in RowIndices |-> <<>>]
    /\ order' = <<>>
    /\ remaining' = Camera.image_height
    /\ out' = <<>>
    /\ rpc' = "map"
    /\ UNCHANGED <<aabbVars, bvhVars, laterVars>>

\* A worker thread takes a row that no thread has taken.
StartRow(th, j) ==
    /\ rpc = "map"
    /\ task[th] = -1
    /\ rows[j] = <<>>
    /\ \A other \in Threads : task[other] # j
    /\ task' = [task EXCEPT ![th] = j]
    /\ UNCHANGED <<rng, seeds, rows, order, remaining, out, rpc, earlier>>
    /\ UNCHANGED <<aabbVars, bvhVars, laterVars>>

\* A faulty variant of rows_left: the value fetch_sub returns is taken as it is.
rows_leftPrevious(previous) == previous

\* let left = remaining.fetch_sub(1, Ordering::Relaxed) - 1, of the value that
\* fetch_sub returns
rows_left(previous) == previous - 1

\* The closure of map for row task[th]: the pixels, remaining.fetch_sub(1), row.
FinishRow(th) ==
    /\ rpc = "map"
    /\ task[th] # -1
    /\ rows' = collect(rows, order, task[th], RowFrom(task[th], 0, rng[th], <<>>).row)
    /\ rng' = [rng EXCEPT ![th] = RowFrom(task[th], 0, rng[th], <<>>).rng]
    /\ remaining' = remaining - 1
    /\ order' = Append(order, <<task[th], th, rows_left(remaining)>>)
    /\ task' = [task EXCEPT ![th] = -1]
    /\ UNCHANGED <<seeds, out, rpc, earlier>>
    /\ UNCHANGED <<aabbVars, bvhVars, laterVars>>

\* The header written as soon as one row is there (not the program: a fault
\* to test C18 against).
WriteHeaderUnjoined ==
    /\ rpc = "map"
    /\ Len(order) >= 1
    /\ out' = <<Header>>
    /\ rpc' = "write"
    /\ UNCHANGED <<rng, seeds, task, rows, order, remaining, earlier>>
    /\ UNCHANGED <<aabbVars, bvhVars, laterVars>>

\* collect() has returned every row; the header is written.
WriteHeader ==
    /\ rpc = "map"
    /\ Len(order) = Camera.image_height
    /\ out' = <<Header>>
    /\ rpc' = "write"
    /\ UNCHANGED <<rng, seeds, task, rows, order, remaining, earlier>>
    /\ UNCHANGED <<aabbVars, bvhVars, laterVars>>

\* for row in rows { out.write_all(&row) }: one iteration
WriteRow ==
    /\ rpc = "write"
    /\ out' = out \o rows[(Len(out) - 1) \div Camera.image_width]
    /\ rpc' = IF Len(out') = 1 + Camera.image_width * Camera.image_height
              THEN "done" ELSE "write"
    /\ UNCHANGED <<rng, seeds, task, rows, order, remaining, earlier>>
    /\ UNCHANGED <<aabbVars, bvhVars, laterVars>>

-----------------------------------------------------------------------------
(* One pixel of the path tracer of the_rest_of_your_life (SpecPath): the   *)
(* stratified samples of the pixel, and ray_color call by call.  What a    *)
(* ray meets is an input: the scene gives the surfaces it can meet at each *)
(* bounce.  A colour is a triple of f64.                                   *)

MaxDepth == 7

MaxSpp == 5

\* A colour from two, channel by channel (impl Add, Mul, Sub for Vec3).
Color3(Op(_, _), a, b) == <<Op(a[1], b[1]), Op(a[2], b[2]), Op(a[3], b[3])>>

\* Color::new(x, x, x)
Grey(x) == <<x, x, x>>

\* world.hit returned None.
Miss == [kind |-> "miss"]

\* The value of pi the densities are computed with.
PI == Norm(22, 7)

\* Material::scatter by material: None, or a ScatterRecord of which skip_pdf and
\* pdf_ptr are kept (Lambertian, Metal, Dielectric, Isotropic; DiffuseLight and
\* EmptyMaterial keep the default of the trait).
scatterIsotropicNoPdf(mat) ==
    CASE mat = "Lambertian" -> [some |-> TRUE, skip_pdf |-> FALSE, pdf_ptr |-> "CosinePdf"]
      [] mat = "Metal" -> [some |-> TRUE, skip_pdf |-> TRUE, pdf_ptr |-> "None"]
      [] mat = "Dielectric" -> [some |-> TRUE, skip_pdf |-> TRUE, pdf_ptr |-> "None"]
      [] mat = "Isotropic" -> [some |-> TRUE, skip_pdf |-> FALSE, pdf_ptr |-> "None"]
      [] OTHER -> [some |-> FALSE, skip_pdf |-> FALSE, pdf_ptr |-> "None"]

scatter(mat) ==
    CASE mat = "Lambertian" -> [some |-> TRUE, skip_pdf |-> FALSE, pdf_ptr |-> "CosinePdf"]
      [] mat = "Metal" -> [some |-> TRUE, skip_pdf |-> TRUE, pdf_ptr |-> "None"]
      [] mat = "Dielectric" -> [some |-> TRUE, skip_pdf |-> TRUE, pdf_ptr |-> "None"]
      [] mat = "Isotropic" -> [some |-> TRUE, skip_pdf |-> FALSE, pdf_ptr |-> "SpherePdf"]
      [] OTHER -> [some |-> FALSE, skip_pdf |-> FALSE, pdf_ptr |-> "None"]

\* The materials of material.rs.
Materials == {"Lambertian", "Metal", "Dielectric", "DiffuseLight", "Isotropic", "EmptyMaterial"}

\* Sphere::pdf_value for a light sphere of the given radius seen from an origin at
\* the given squared distance of its centre; meets says whether the direction
\* meets the sphere.  The square root of a negative number is NaN.
sphere_pdf_value(meets, radius, dist_squared) ==
    IF ~meets THEN F(0)
    ELSE LET q == FSub(F(1), FDiv(F(radius * radius), dist_squared))
             cos_theta_max == IF IsNaN(q) \/ q.n < 0 THEN NAN
                              ELSE Norm(SqrtFloor(q.n, 0, q.n), SqrtFloor(q.d, 0, q.d))
         IN  FRecip(FMul(FMul(F(2), PI), FSub(F(1), cos_theta_max)))

\* A HitRecord with what its material does: emitted, and what ray_color meets in
\* scatter: None ("none"), a record with skip_pdf ("skip_pdf"), one without
\* skip_pdf and without a pdf ("no pdf"), or one with a pdf ("pdf").  pdf_value is
\* MixturePdf::value for the sampled direction, 0.5 * p[0].value + 0.5 * p[1].value,
\* of the density of the lights and of the pdf of the record, whose value for the
\* direction is that of scattering_pdf.
Surface(mat, emitted, attenuation, light_pdf, scattering_pdf) ==
    [kind |-> "hit", mat |-> mat,
     scatter |-> IF ~scatter(mat).some THEN "none"
                 ELSE IF scatter(mat).skip_pdf THEN "skip_pdf"
                 ELSE IF scatter(mat).pdf_ptr = "None" THEN "no pdf"
                 ELSE "pdf",
     skip_pdf |-> scatter(mat).skip_pdf, pdf_ptr |-> scatter(mat).pdf_ptr,
     emitted |-> emitted, attenuation |-> attenuation,
     pdf_value |-> FAdd(FMul(Norm(1, 2), light_pdf), FMul(Norm(1, 2), scattering_pdf)),
     scattering_pdf |-> scattering_pdf]

\* What a ray can meet after the given number of bounces: a Lambertian sphere and
\* an Isotropic one before a background; a Metal and a Dielectric facing each
\* other; a room of Lambertian walls with a DiffuseLight and an EmptyMaterial,
\* where the sampled direction meets the light sphere, misses it, or starts
\* inside it.
Scene(w, bounces) ==
    CASE w = "sphere" ->
            IF bounces = 0
            THEN {Miss,
                  Surface("Lambertian", Grey(F(0)), Grey(Norm(1, 2)),
                          sphere_pdf_value(TRUE, 3, F(25)), Norm(35, 132)),
                  Surface("Isotropic", Grey(F(0)), Grey(Norm(1, 2)),
                          sphere_pdf_value(TRUE, 2, Norm(9, 2)), FRecip(FMul(F(4), PI)))}
            ELSE {Miss}
      [] w = "mirrors" ->
            {Surface("Metal", Grey(F(0)), <<Norm(1, 2), Norm(1, 4), Norm(1, 8)>>, F(0), F(0)),
             Surface("Dielectric", Grey(F(0)), Grey(F(1)), F(0), F(0))}
      [] w = "room" ->
            {Surface("Lambertian", Grey(F(0)), <<Norm(1, 2), Norm(1, 2), Norm(1, 4)>>,
                     sphere_pdf_value(TRUE, 3, F(25)), Norm(35, 132)),
             Surface("Lambertian", Grey(F(0)), Grey(Norm(1, 2)),
                     sphere_pdf_value(FALSE, 3, F(25)), F(0)),
             Surface("Lambertian", Grey(F(0)), Grey(Norm(1, 2)),
                     sphere_pdf_value(TRUE, 3, F(4)), Norm(35, 132)),
             Surface("DiffuseLight", Grey(F(15)), Grey(F(0)), F(0), F(0)),
             Surface("EmptyMaterial", Grey(F(0)), Grey(F(0)), F(0), F(0))}

\* The cameras and scenes traced: every depth with one sample per pixel, and
\* every samples_per_pixel on the single sphere.
Runs ==
    [samples_per_pixel : {1}, max_depth : 0..MaxDepth,
     background : {Grey(F(0)), <<Norm(1, 2), Norm(3, 4), F(1)>>},
     world : {"sphere", "mirrors", "room"}]
    \cup
    [samples_per_pixel : 1..MaxSpp, max_depth : {0, 1},
     background : {Grey(F(0)), <<Norm(1, 2), Norm(3, 4), F(1)>>},
     world : {"sphere"}]

\* What random_double() > p is decided on: a draw of 0 or of 0.99.
Draws == {F(0), Norm(99, 100)}

\* A faulty variant of pixel_samples_scale: one over samples_per_pixel.
pixel_samples_scalePerSpp(c, sqrt_spp) == FRecip(F(c.samples_per_pixel))

\* let pixel_samples_scale = 1.0 / (sqrt_spp * sqrt_spp) as f64
pixel_samples_scale(c, sqrt_spp) == FRecip(F(sqrt_spp * sqrt_spp))

\* Camera::initialize: sqrt_spp = (self.samples_per_pixel as f64).sqrt() as i32
initialize(c) ==
    [sqrt_spp |-> SqrtFloor(c.samples_per_pixel, 0, c.samples_per_pixel),
     pixel_samples_scale |->
         pixel_samples_scale(c, SqrtFloor(c.samples_per_pixel, 0, c.samples_per_pixel))]

\* A faulty variant of depth_spent: only a negative depth ends the path.
depth_spentBelowZero(depth) == depth < 0

\* if depth <= 0 { return Color::new(0.0, 0.0, 0.0) }
depth_spent(depth) == depth <= 0

\* A faulty variant of next_depth: the recursive call keeps the depth.
next_depthSame(depth) == depth

\* self.ray_color(.., depth - 1, ..)
next_depth(depth) == depth - 1

\* A faulty variant of roulette_due: roulette from the sixth bounce on.
roulette_dueLater(bounces) == bounces >= 6

\* let bounces = self.max_depth - depth; if bounces >= 5
roulette_due(bounces) == bounces >= 5

\* attenuation.x().max(attenuation.y()).max(attenuation.z()).clamp(0.05, 0.95)
continuation(attenuation) ==
    LET xy == IF FGt(attenuation[2], attenuation[1]) THEN attenuation[2] ELSE attenuation[1]
        m == IF FGt(attenuation[3], xy) THEN attenuation[3] ELSE xy
    IN  IF FLt(m, Norm(1, 20)) THEN Norm(1, 20)
        ELSE IF FGt(m, Norm(19, 20)) THEN Norm(19, 20)
        ELSE m

\* rr_prob: the continuation probability from bounce 5 on, 1.0 before.
rr_prob(h, bounces) == IF roulette_due(bounces) THEN continuation(h.attenuation) ELSE F(1)

\* What a call of ray_color returns once its recursive call has returned child:
\* emitted + attenuation * child / p with skip_pdf, and
\* emitted + attenuation * scattering_pdf * child / (pdf_value * rr_prob) with a pdf.
Scattered(f, child) ==
    Color3(FAdd, f.hit.emitted,
           Color3(FMul, f.hit.attenuation,
                  Color3(FMul, child,
                         Grey(IF f.hit.scatter = "skip_pdf"
                              THEN FRecip(f.rr_prob)
                              ELSE FDiv(f.hit.scattering_pdf,
                                        FMul(f.hit.pdf_value, f.rr_prob))))))

InitPath ==
    /\ cam = [samples_per_pixel |-> 1, max_depth |-> 0, background |-> Grey(F(0)),
              world |-> "sphere"]
    /\ world = "sphere"
    /\ data = initialize(cam)
    /\ sample = 0
    /\ pixel_sum = Grey(F(0))
    /\ frames = <<>>
    /\ call = [kind |-> "none", depth |-> 0]
    /\ hits = 0
    /\ written = <<>>
    /\ ppc = "init"

\* Camera::render up to the samples of a pixel: let data = self.initialize().
Initialize(r) ==
    /\ ppc = "init"
    /\ cam' = r
    /\ world' = r.world
    /\ data' = initialize(r)
    /\ ppc' = "pixel"
    /\ UNCHANGED <<sample, pixel_sum, frames, call, hits, written>>
    /\ UNCHANGED <<aabbVars, bvhVars, renderVars, mainVars, configVars, moreVars>>

\* for s_j in 0..sqrt_spp { for s_i in 0..sqrt_spp { let r = self.get_ray(..);
\* self.ray_color(r, self.max_depth, ..) } }: the call for the next sample
GetRay ==
    /\ ppc = "pixel"
    /\ sample < data.sqrt_spp * data.sqrt_spp
    /\ call' = [kind |-> "call", depth |-> cam.max_depth]
    /\ frames' = <<>>
    /\ hits' = 0
    /\ ppc' = "trace"
    /\ UNCHANGED <<cam, world, data, sample, pixel_sum, written>>
    /\ UNCHANGED <<aabbVars, bvhVars, renderVars, mainVars, configVars, moreVars>>

\* ray_color from its entry to its recursive call or to a return without one;
\* h is what world.hit finds, u the draw of random_double().
RayColor(h, u) ==
    /\ ppc = "trace"
    /\ call.kind = "call"
    /\ IF depth_spent(call.depth)
       THEN /\ call' = [kind |-> "ret", depth |-> call.depth, why |-> "spent",
                        color |-> Grey(F(0))]
            /\ UNCHANGED <<frames, hits>>
       ELSE /\ hits' = hits + 1
            /\ IF h.kind = "miss"
               THEN /\ call' = [kind |-> "ret", depth |-> call.depth, why |-> "miss",
                                color |-> cam.background]
                    /\ UNCHANGED frames
               ELSE IF h.scatter = "none"
               THEN /\ call' = [kind |-> "ret", depth |-> call.depth, why |-> "emitted",
                                color |-> h.emitted, hit |-> h]
                    /\ UNCHANGED frames
               ELSE IF h.scatter = "no pdf"
               THEN /\ call' = [kind |-> "ret", depth |-> call.depth, why |-> "no pdf",
                                color |-> h.emitted, hit |-> h]
                    /\ UNCHANGED frames
               ELSE IF /\ roulette_due(cam.max_depth - call.depth)
                       /\ FGt(u, continuation(h.attenuation))
               THEN /\ call' = [kind |-> "ret", depth |-> call.depth, why |-> "roulette",
                                color |-> h.emitted, hit |-> h, u |-> u]
                    /\ UNCHANGED frames
               ELSE IF h.scatter = "pdf" /\ FLe(h.pdf_value, F(0))
               THEN /\ call' = [kind |-> "ret", depth |-> call.depth, why |-> "no density",
                                color |-> h.emitted, hit |-> h]
                    /\ UNCHANGED frames
               ELSE /\ frames' = Append(frames,
                            [depth |-> call.depth, hit |-> h,
                             rr_prob |-> rr_prob(h, cam.max_depth - call.depth)])
                    /\ call' = [kind |-> "call", depth |-> next_depth(call.depth)]
    /\ UNCHANGED <<cam, world, data, sample, pixel_sum, written, ppc>>
    /\ UNCHANGED <<aabbVars, bvhVars, renderVars, mainVars, configVars, moreVars>>

\* The recursive call has returned: the caller adds its own terms and returns.
Return ==
    /\ ppc = "trace"
    /\ call.kind = "ret"
    /\ frames # <<>>
    /\ call' = [kind |-> "ret", depth |-> frames[Len(frames)].depth, why |-> "scattered",
                color |-> Scattered(frames[Len(frames)], call.color),
                hit |-> frames[Len(frames)].hit, rr_prob |-> frames[Len(frames)].rr_prob,
                child |-> call.color]
    /\ frames' = SubSeq(frames, 1, Len(frames) - 1)
    /\ UNCHANGED <<cam, world, data, sample, pixel_sum, hits, written, ppc>>
    /\ UNCHANGED <<aabbVars, bvhVars, renderVars, mainVars, configVars, moreVars>>

\* pixel_color += self.ray_color(r, self.max_depth, world, lights.clone())
AddSample ==
    /\ ppc = "trace"
    /\ call.kind = "ret"
    /\ frames = <<>>
    /\ pixel_sum' = Color3(FAdd, pixel_sum, call.color)
    /\ sample' = sample + 1
    /\ ppc' = "pixel"
    /\ UNCHANGED <<cam, world, data, frames, call, hits, written>>
    /\ UNCHANGED <<aabbVars, bvhVars, renderVars, mainVars, configVars, moreVars>>

\* write_color(&mut row, data.pixel_samples_scale * pixel_color)
WritePixel ==
    /\ ppc = "pixel"
    /\ sample = data.sqrt_spp * data.sqrt_spp
    /\ written' = write_color(Color3(FMul, Grey(data.pixel_samples_scale), pixel_sum))
    /\ ppc' = "done"
    /\ UNCHANGED <<cam, world, data, sample, pixel_sum, frames, call, hits>>
    /\ UNCHANGED <<aabbVars, bvhVars, renderVars, mainVars, configVars, moreVars>>

-----------------------------------------------------------------------------
(* main (SpecMain): the backend and the book of the command line, the GPU  *)
(* render with its writer write_ppm_from_accum, the CPU render of a book   *)
(* with its writer in Camera::render.  Both write through a BufWriter to   *)
(* stdout; whether a write to the stream succeeds is an input, and so are  *)
(* the averaged colours of the pixels.  The image is Camera.image_width by *)
(* Camera.image_height.                                                    *)

\* The lines a BufWriter holds before it writes them to the stream (8 KiB in
\* the program, where a row of the default width is longer and goes to the
\* stream after the buffer was flushed, with the same outcomes).
BufCap == 3

\* book_key and backend after main's parsing: the aliases of a book stand for
\* the book, "unknown" for every other word.
Args ==
    [book : {"inoneweekend", "thenextweek", "therestofyourlife", "unknown"},
     backend : {"cpu", "gpu"}]

\* Averaged pixel colours: channels negative, zero, inside (0, 1), 1, above 1,
\* +inf, -inf and NaN.
Colors ==
    {<<F(-1), F(0), Norm(1, 4)>>, <<Norm(1, 2), F(1), F(2)>>, <<INFINITY, NEG_INFINITY, NAN>>}

\* write_ppm_from_accum, one pixel: a channel that is not finite becomes 0.0,
\* then max(0.0), sqrt, clamp(0.0, 0.999), * 256.0 as u8 (the f32 rounding of
\* accum * scale and of the square root is not modelled).
accum_rgb(c) ==
    <<IF IsFinite(c[1]) THEN ColorByte(c[1]) ELSE 0,
      IF IsFinite(c[2]) THEN ColorByte(c[2]) ELSE 0,
      IF IsFinite(c[3]) THEN ColorByte(c[3]) ELSE 0>>

\* The writes of the writer at work, in order: writeln!(header), then
\* writeln! for each pixel (write_ppm_from_accum) or write_all for each row
\* (Camera::render).  A line carries its writer and the colour it is from.
Chunks ==
    <<<<[by |-> writer, color |-> <<>>, text |-> Header]>>>> \o
    (IF writer = "gpu"
     THEN [k \in 1..Len(image) |->
              <<[by |-> "gpu", color |-> image[k], text |-> accum_rgb(image[k])]>>]
     ELSE [j \in 1..Camera.image_height |->
              [i \in 1..Camera.image_width |->
                  [by |-> "cpu", color |-> image[(j - 1) * Camera.image_width + i],
                   text |-> write_color(image[(j - 1) * Camera.image_width + i])]]])

\* A faulty variant of after_gpu: main returns whatever the GPU render returned.
after_gpuReturn(result) == "exit"

\* match gpu::render_in_one_weekend() { Ok(()) => return, Err(err) => {..} }
after_gpu(result) == IF result = "ok" THEN "exit" ELSE "match"

InitMain ==
    /\ argv = [book |-> "inoneweekend", backend |-> "cpu"]
    /\ gpu_result = "none"
    /\ cpu_book = "none"
    /\ stderr = <<>>
    /\ image = <<>>
    /\ writer = "none"
    /\ chunk_no = 0
    /\ bufw = <<>>
    /\ stdout = <<>>
    /\ failed = {}
    /\ mpc = "start"

\* main up to gpu::render_in_one_weekend() or to the match on book_key.
Main(a) ==
    /\ mpc = "start"
    /\ argv' = a
    /\ IF a.backend = "gpu"
       THEN IF a.book = "inoneweekend"
            THEN /\ mpc' = "gpu"
                 /\ UNCHANGED stderr
            ELSE /\ stderr' = Append(stderr, "GPU backend currently supports in_one_weekend only. Falling back to CPU.")
                 /\ mpc' = "match"
       ELSE /\ mpc' = "match"
            /\ UNCHANGED stderr
    /\ UNCHANGED <<gpu_result, cpu_book, image, writer, chunk_no, bufw, stdout, failed>>
    /\ UNCHANGED <<aabbVars, bvhVars, renderVars, pathVars, configVars, moreVars>>

\* gpu::render_in_one_weekend up to write_ppm_from_accum: no adapter or device
\* (Err), or the passes were rendered into the accumulation buffer.
GpuRender(adapter, accum_avg) ==
    /\ mpc = "gpu"
    /\ IF adapter
       THEN /\ image' = accum_avg
            /\ writer' = "gpu"
            /\ chunk_no' = 1
            /\ bufw' = <<>>
            /\ mpc' = "write"
            /\ UNCHANGED <<gpu_result, stderr>>
       ELSE /\ gpu_result' = "err"
            /\ stderr' = stderr \o <<"GPU render failed: No compatible GPU adapter found",
                                     "Falling back to CPU.">>
            /\ mpc' = after_gpu("err")
            /\ UNCHANGED <<image, writer, chunk_no, bufw>>
    /\ UNCHANGED <<argv, cpu_book, stdout, failed>>
    /\ UNCHANGED <<aabbVars, bvhVars, renderVars, pathVars, configVars, moreVars>>

\* match book_key: run() of the book up to the BufWriter of Camera::render,
\* the rows rendered; or the usage message.
Run(pixel_avg) ==
    /\ mpc = "match"
    /\ IF argv.book = "unknown"
       THEN /\ stderr' = Append(stderr, "Usage: cargo run -- <book> [scene]")
            /\ mpc' = "exit"
            /\ UNCHANGED <<cpu_book, image, writer, chunk_no, bufw>>
       ELSE /\ cpu_book' = argv.book
            /\ image' = pixel_avg
            /\ writer' = "cpu"
            /\ chunk_no' = 1
            /\ bufw' = <<>>
            /\ mpc' = "write"
            /\ UNCHANGED stderr
    /\ UNCHANGED <<argv, gpu_result, stdout, failed>>
    /\ UNCHANGED <<aabbVars, bvhVars, renderVars, pathVars, configVars, moreVars>>

\* One writeln! or write_all on the BufWriter: the lines go to the buffer; a
\* full buffer is written to the stream first, and if that fails (ok false)
\* write_ppm_from_accum returns Err and Camera::render panics in expect.
Writeln(ok) ==
    /\ mpc = "write"
    /\ chunk_no <= Len(Chunks)
    /\ IF Len(bufw) + Len(Chunks[chunk_no]) <= BufCap
       THEN /\ bufw' = bufw \o Chunks[chunk_no]
            /\ chunk_no' = chunk_no + 1
            /\ UNCHANGED <<stdout, failed, stderr, mpc>>
       ELSE IF ok
       THEN /\ stdout' = stdout \o bufw
            /\ bufw' = Chunks[chunk_no]
            /\ chunk_no' = chunk_no + 1
            /\ UNCHANGED <<failed, stderr, mpc>>
       ELSE /\ failed' = failed \cup {writer}
            /\ stderr' = IF writer = "cpu"
                         THEN Append(stderr, "failed to write pixel data")
                         ELSE stderr
            /\ mpc' = "unwind"
            /\ UNCHANGED <<stdout, bufw, chunk_no>>
    /\ UNCHANGED <<argv, gpu_result, cpu_book, image, writer>>
    /\ UNCHANGED <<aabbVars, bvhVars, renderVars, pathVars, configVars, moreVars>>

\* The BufWriter goes out of scope, at the end of the writer or on its way out
\* with Err or a panic: what it holds is written to the stream, and a failure
\* of that write (ok false) is ignored.  Then write_ppm_from_accum has
\* returned to main through render_in_one_weekend, or Camera::render is over.
Drop(ok) ==
    /\ (mpc = "write" /\ chunk_no > Len(Chunks)) \/ mpc = "unwind"
    /\ stdout' = IF ok THEN stdout \o bufw ELSE stdout
    /\ failed' = IF ok \/ bufw = <<>> THEN failed ELSE failed \cup {writer}
    /\ bufw' = <<>>
    /\ IF writer = "gpu"
       THEN /\ gpu_result' = IF mpc = "write" THEN "ok" ELSE "err"
            /\ stderr' = IF mpc = "write" THEN stderr
                         ELSE stderr \o <<"GPU render failed: write", "Falling back to CPU.">>
            /\ mpc' = after_gpu(gpu_result')
       ELSE /\ stderr' = IF mpc = "write" THEN Append(stderr, "Done.") ELSE stderr
            /\ mpc' = IF mpc = "write" THEN "exit" ELSE "panic"
            /\ UNCHANGED gpu_result
    /\ UNCHANGED <<argv, cpu_book, image, writer, chunk_no>>
    /\ UNCHANGED <<aabbVars, bvhVars, renderVars, pathVars, configVars, moreVars>>

-----------------------------------------------------------------------------
(* Render overrides (SpecConfig): config::OVERRIDES is fixed, then a       *)
(* renderer sets up its camera from the defaults of its scene and the      *)
(* overrides.  Option<T> is <<>> for None and <<v>> for Some(v); a number  *)
(* with a fraction is <<numerator, denominator>>; a background is a colour *)
(* with mode 1, the sky of in_one_weekend has mode 0.                      *)

\* struct RenderOverrides
Fields ==
    {"aspect_ratio", "image_width", "samples_per_pixel", "max_depth", "vfov", "lookfrom",
     "lookat", "vup", "defocus_angle", "focus_dist", "background"}

\* The values of an override block: for each field a value that no scene has
\* (the background's channels are exact in f32, which the GPU scene casts to).
Values ==
    [aspect_ratio |-> <<4, 3>>, image_width |-> 2160, samples_per_pixel |-> 5000,
     max_depth |-> 100, vfov |-> <<30, 1>>, lookfrom |-> <<1, 2, 3>>, lookat |-> <<0, 1, 0>>,
     vup |-> <<0, 0, 1>>, defocus_angle |-> <<1, 5>>, focus_dist |-> <<5, 1>>,
     background |-> [mode |-> 1, color |-> <<<<1, 2>>, <<3, 4>>, <<1, 1>>>>]]

\* Every override block: each field None or Some.
Blocks == {[f \in Fields |-> IF f \in S THEN <<Values[f]>> ELSE <<>>] : S \in SUBSET Fields}

\* The camera a renderer sets up before it applies the overrides: run() of
\* the_rest_of_your_life and of in_one_weekend (whose Camera has no
\* background: its rays that miss get the sky), build_in_one_weekend_scene.
Defaults(renderer) ==
    IF renderer = "the_rest_of_your_life"
    THEN [aspect_ratio |-> <<1, 1>>, image_width |-> 600, samples_per_pixel |-> 100,
          max_depth |-> 50, vfov |-> <<40, 1>>, lookfrom |-> <<278, 278, -800>>,
          lookat |-> <<278, 278, 0>>, vup |-> <<0, 1, 0>>, defocus_angle |-> <<0, 1>>,
          focus_dist |-> <<10, 1>>,
          background |-> [mode |-> 1, color |-> <<<<0, 1>>, <<0, 1>>, <<0, 1>>>>]]
    ELSE IF renderer = "in_one_weekend"
    THEN [aspect_ratio |-> <<16, 9>>, image_width |-> 1200, samples_per_pixel |-> 10,
          max_depth |-> 20, vfov |-> <<20, 1>>, lookfrom |-> <<13, 2, 3>>,
          lookat |-> <<0, 0, 0>>, vup |-> <<0, 1, 0>>, defocus_angle |-> <<6, 10>>,
          focus_dist |-> <<10, 1>>]
    ELSE [aspect_ratio |-> <<16, 9>>, image_width |-> 1200, samples_per_pixel |-> 10,
          max_depth |-> 20, vfov |-> <<20, 1>>, lookfrom |-> <<13, 2, 3>>,
          lookat |-> <<0, 0, 0>>, vup |-> <<0, 1, 0>>, defocus_angle |-> <<6, 10>>,
          focus_dist |-> <<10, 1>>,
          background |-> [mode |-> 0, color |-> <<<<0, 1>>, <<0, 1>>, <<0, 1>>>>]]

\* The fields a renderer has an `if let Some(value) = o.field` for.
Handled(renderer) ==
    IF renderer = "in_one_weekend" THEN Fields \ {"background"} ELSE Fields

\* apply_overrides(&mut cam), and the same statements of
\* build_in_one_weekend_scene.
apply_overrides(renderer, c, o) ==
    [f \in DOMAIN c |-> IF f \in Handled(renderer) /\ o[f] # <<>> THEN o[f][1] ELSE c[f]]

InitConfig ==
    /\ overrides = <<>>
    /\ built = [renderer |-> "none"]

\* pub const OVERRIDES: RenderOverrides = RenderOverrides { .. }
Configure(o) ==
    /\ overrides = <<>>
    /\ overrides' = o
    /\ UNCHANGED built
    /\ UNCHANGED <<aabbVars, bvhVars, renderVars, pathVars, mainVars, moreVars>>

\* A renderer sets up its camera.
BuildScene(renderer) ==
    /\ overrides # <<>>
    /\ built' = [renderer |-> renderer,
                 camera |-> apply_overrides(renderer, Defaults(renderer), overrides)]
    /\ UNCHANGED overrides
    /\ UNCHANGED <<aabbVars, bvhVars, renderVars, pathVars, mainVars, moreVars>>

-----------------------------------------------------------------------------
(* One call of BvhNode::build on a slice of more than two objects          *)
(* (SpecSplit): spheres along the x axis, and the split build makes.       *)

MaxSlice == 3

\* The centres (on the x axis) and the radii of the spheres of a slice.
SliceXs == {0, 4, 8}

SliceRadii == {1, 2}

Slices ==
    UNION {[1..n -> [x : SliceXs, radius : SliceRadii]] : n \in 3..MaxSlice}

InitSplit == cut = [pc |-> "none"]

\* The caller's objects: Sphere::new for each, and the slice over all of them.
MakeSlice(items) ==
    /\ cut.pc = "none"
    /\ prims' = [k \in 1..Len(items) |-> SphereNew(<<items[k].x, 0, 0>>, items[k].radius)]
    /\ cut' = [pc |-> "slice", objs |-> [k \in 1..Len(items) |-> k]]
    /\ UNCHANGED <<list, objects, nodes, stack, pc, ray, ray_t, bvh_rec, list_rec>>
    /\ UNCHANGED <<aabbVars, renderVars, pathVars, mainVars, configVars, weekendVars, passVars>>

\* What build computes on the way to its split, for the slice and its bbox.
SplitOf(objs, bbox) ==
    [pc |-> "split", objs |-> objs,
     axis |-> longest_axis(bbox),
     centroid_min |-> CentroidMin(objs, longest_axis(bbox), 1, INFINITY),
     centroid_max |-> CentroidMax(objs, longest_axis(bbox), 1, NEG_INFINITY),
     buckets |-> FillBuckets(objs, longest_axis(bbox),
                             CentroidMin(objs, longest_axis(bbox), 1, INFINITY),
                             CentroidMax(objs, longest_axis(bbox), 1, NEG_INFINITY), 1,
                             [i \in 0..(NUM_BUCKETS - 1) |-> Bucket(0, AabbEMPTY)]),
     best |-> SahScan(FillBuckets(objs, longest_axis(bbox),
                                  CentroidMin(objs, longest_axis(bbox), 1, INFINITY),
                                  CentroidMax(objs, longest_axis(bbox), 1, NEG_INFINITY), 1,
                                  [i \in 0..(NUM_BUCKETS - 1) |-> Bucket(0, AabbEMPTY)]),
                      0, Bucket(0, AabbEMPTY), [cost |-> INFINITY, split |-> 0]),
     res |-> BuildSplit(objs, bbox)]

\* BvhNode::build on the slice, up to its two recursive calls.
SplitSlice ==
    /\ cut.pc = "slice"
    /\ cut' = SplitOf(cut.objs, UnionOfBoxes(cut.objs, 1, AabbEMPTY))
    /\ UNCHANGED bvhVars
    /\ UNCHANGED <<aabbVars, renderVars, pathVars, mainVars, configVars, weekendVars, passVars>>

-----------------------------------------------------------------------------
(* The pass loops of gpu::render and cuda::imp::render (SpecPasses): the    *)
(* samples of a pixel are rendered in passes of at most SPP_PER_PASS.  A    *)
(* u32 is an integer here; a subtraction below zero is recorded.            *)

MaxTotalSpp == 600

GPU_SPP_PER_PASS == 64

CUDA_SPP_PER_PASS == 256

SppPerPass(backend) == IF backend = "wgpu" THEN GPU_SPP_PER_PASS ELSE CUDA_SPP_PER_PASS

\* n to the nearest multiple of unit, ties to the even multiple.
RoundToUnit(n, unit) ==
    IF 2 * (n % unit) > unit \/ (2 * (n % unit) = unit /\ (n \div unit) % 2 = 1)
    THEN (n \div unit + 1) * unit
    ELSE (n \div unit) * unit

\* The unit of the f32 values from n on: 1 below 2^24, doubling with each bit.
RECURSIVE UnitOf(_, _)
UnitOf(n, unit) == IF n \div unit < 16777216 THEN unit ELSE UnitOf(n, 2 * unit)

\* `n as f32` of an integer: 24 significant bits, to nearest, ties to even.
as_f32(n) == IF n < 0 THEN -RoundToUnit(-n, UnitOf(-n, 1)) ELSE RoundToUnit(n, UnitOf(n, 1))

\* camera.params_f[3].max(1.0) as u32, of a params_f[3] that holds an integer
total_spp(params_spp) == IF params_spp > 1 THEN params_spp ELSE 1

\* SPP_PER_PASS.min(total_spp)
spp_per_pass(backend, total) == IF SppPerPass(backend) < total THEN SppPerPass(backend) ELSE total

\* A faulty variant of pass_count: the quotient and one more.
pass_countQuotientPlusOne(total, per) == total \div per + 1

\* (total_spp + spp_per_pass - 1) / spp_per_pass
pass_count(total, per) == (total + per - 1) \div per

InitPasses == passes = [pc |-> "none"]

\* render up to its pass loop; samples_per_pixel is that of the scene built.
StartPasses(backend, samples_per_pixel) ==
    /\ passes.pc = "none"
    /\ passes' =
        [pc |-> "loop", backend |-> backend,
         total_spp |-> total_spp(as_f32(samples_per_pixel)),
         spp_per_pass |-> spp_per_pass(backend, total_spp(as_f32(samples_per_pixel))),
         pass_count |-> pass_count(total_spp(as_f32(samples_per_pixel)),
                                   spp_per_pass(backend, total_spp(as_f32(samples_per_pixel)))),
         pass_index |-> 0, pass_spp |-> 0, underflow |-> FALSE, samples |-> 0, divisor |-> 0]
    /\ UNCHANGED <<aabbVars, bvhVars, renderVars, pathVars, mainVars, configVars,
                   splitVars, weekendVars>>

\* One iteration of `for pass_index in 0..pass_count`: remaining, pass_spp, and
\* the kernel adding pass_spp samples to every pixel of accum.
Pass ==
    /\ passes.pc = "loop"
    /\ passes.pass_index < passes.pass_count
    /\ passes' =
        [passes EXCEPT
            !.underflow = @ \/ passes.total_spp < passes.pass_index * passes.spp_per_pass,
            !.pass_spp =
                IF passes.total_spp < passes.pass_index * passes.spp_per_pass
                THEN passes.spp_per_pass
                ELSE IF passes.total_spp - passes.pass_index * passes.spp_per_pass
                            < passes.spp_per_pass
                THEN passes.total_spp - passes.pass_index * passes.spp_per_pass
                ELSE passes.spp_per_pass,
            !.samples =
                @ + as_f32(IF passes.total_spp < passes.pass_index * passes.spp_per_pass
                           THEN passes.spp_per_pass
                           ELSE IF passes.total_spp - passes.pass_index * passes.spp_per_pass
                                       < passes.spp_per_pass
                           THEN passes.total_spp - passes.pass_index * passes.spp_per_pass
                           ELSE passes.spp_per_pass),
            !.pass_index = @ + 1]
    /\ UNCHANGED <<aabbVars, bvhVars, renderVars, pathVars, mainVars, configVars,
                   splitVars, weekendVars>>

\* write_ppm_from_accum(width, height, accum, total_spp) after the loop
WriteAccum ==
    /\ passes.pc = "loop"
    /\ passes.pass_index = passes.pass_count
    /\ passes' = [passes EXCEPT !.pc = "written", !.divisor = passes.total_spp]
    /\ UNCHANGED <<aabbVars, bvhVars, renderVars, pathVars, mainVars, configVars,
                   splitVars, weekendVars>>

-----------------------------------------------------------------------------
(* Specifications *)

Init ==
    InitAabb /\ InitBvh /\ InitRender /\ InitPath /\ InitMain /\ InitConfig /\ InitSplit
    /\ InitPasses

Next ==
    \/ \E id \in SceneIds : Add(id)
    \/ Clear
    \/ New
    \/ Build
    \/ \E r \in Rays, rt \in RayTs : Hit(r, rt)

Spec == Init /\ [][Next]_vars

NextAabb ==
    \/ \E a \in Points, b \in Points : AabbFromPoints(a, b)
    \/ AabbEmpty
    \/ AabbFromBoxes
    \/ \E offset \in Offsets : AabbPlus(offset)

SpecAabb == Init /\ [][NextAabb]_vars

NextRender ==
    \/ Render
    \/ \E th \in Threads, j \in RowIndices : StartRow(th, j)
    \/ \E th \in Threads : FinishRow(th)
    \/ WriteHeader
    \/ WriteRow

SpecRender == Init /\ [][NextRender]_vars

NextPath ==
    \/ \E r \in Runs : Initialize(r)
    \/ GetRay
    \/ \E h \in Scene(world, cam.max_depth - call.depth), u \in Draws : RayColor(h, u)
    \/ Return
    \/ AddSample
    \/ WritePixel

SpecPath == Init /\ [][NextPath]_vars

NextMain ==
    \/ \E a \in Args : Main(a)
    \/ \E adapter \in BOOLEAN, accum_avg \in [1..(Camera.image_width * Camera.image_height) -> Colors] :
        GpuRender(adapter, accum_avg)
    \/ \E pixel_avg \in [1..(Camera.image_width * Camera.image_height) -> Colors] : Run(pixel_avg)
    \/ \E ok \in BOOLEAN : Writeln(ok)
    \/ \E ok \in BOOLEAN : Drop(ok)

SpecMain == Init /\ [][NextMain]_vars

NextConfig ==
    \/ \E o \in Blocks : Configure(o)
    \/ \E renderer \in {"the_rest_of_your_life", "in_one_weekend", "gpu"} : BuildScene(renderer)

SpecConfig == Init /\ [][NextConfig]_vars

NextSplit ==
    \/ \E items \in Slices : MakeSlice(items)
    \/ SplitSlice

SpecSplit == Init /\ [][NextSplit]_vars

NextPasses ==
    \/ \E backend \in {"wgpu", "cuda"}, samples_per_pixel \in (-1)..MaxTotalSpp :
        StartPasses(backend, samples_per_pixel)
    \/ Pass
    \/ WriteAccum

SpecPasses == Init /\ [][NextPasses]_vars

-----------------------------------------------------------------------------
(* Properties of the BVH *)

\* The primitives beneath a child: the leaves of its subtree.
RECURSIVE PrimsBeneath(_)
PrimsBeneath(ref) ==
    IF ref.node
    THEN PrimsBeneath(nodes[ref.id].left) \cup PrimsBeneath(nodes[ref.id].right)
    ELSE {ref.id}

\* Every point of `inner` lies in `outer`, axis by axis.
IntervalWithin(inner, outer) == FLe(outer.min, inner.min) /\ FLe(inner.max, outer.max)

AabbWithin(inner, outer) ==
    /\ IntervalWithin(inner.x, outer.x)
    /\ IntervalWithin(inner.y, outer.y)
    /\ IntervalWithin(inner.z, outer.z)

Built == pc \in {"built", "hit"}

\* C1: for every ray, interval and primitive set, BvhNode::hit on the tree
\* built from the set returns what HittableList::hit returns over the same
\* set: both miss, or both hit the same primitive at the same t.
C1_BvhHitEqualsListHit == pc = "hit" => bvh_rec = list_rec

\* C2: a hit returned by BvhNode::hit is the closest one: no primitive of the
\* tree has an intersection inside the interval with a smaller t, and when
\* BvhNode::hit returns no hit, no primitive has an intersection inside the
\* interval at all.
C2_BvhHitIsClosest ==
    pc = "hit" =>
        \A k \in DOMAIN list.objects :
            PrimHit(list.objects[k], ray, ray_t).some =>
                /\ bvh_rec.some
                /\ FLe(bvh_rec.t, PrimHit(list.objects[k], ray, ray_t).t)

\* C3: BvhNode::build terminates for every sequence of primitives, the empty
\* one included, every call build makes being on a strictly shorter slice.
C3_BuildTerminates ==
    /\ pc # "overflow"
    /\ \A k \in DOMAIN stack : stack[k].len < stack[k].caller_len

\* C4: in a built tree the bounding box of every node contains the bounding
\* box of every primitive beneath the node.
C4_NodeBoxContainsPrimitives ==
    Built =>
        \A id \in DOMAIN nodes :
            \A p \in PrimsBeneath(NodeRef(id)) : AabbWithin(bounding_box(p), nodes[id].bbox)

C4_Witness ==
    /\ pc = "built"
    /\ Cardinality(DOMAIN nodes) = 3
    /\ Cardinality(PrimsBeneath(NodeRef(1))) = 3

\* C5: the t of a hit returned by BvhNode::hit or by HittableList::hit lies
\* inside the queried interval [ray_t.min, ray_t.max].
C5_HitInsideInterval ==
    pc = "hit" =>
        /\ bvh_rec.some => contains(ray_t, bvh_rec.t)
        /\ list_rec.some => contains(ray_t, list_rec.t)

\* A hit in a bounded window, of a scene that holds a nested list.
C5_Witness ==
    /\ pc = "hit"
    /\ bvh_rec.some
    /\ list_rec.some
    /\ IsFinite(ray_t.max)
    /\ \E k \in DOMAIN list.objects : prims[list.objects[k]].kind = "list"

\* C6: a node built from one primitive holds it as both children, a node
\* built from two holds them as left and right child, and a node built from
\* three or more has two child nodes, each built from a non-empty proper
\* part of its slice; no node is built from no primitive.
C6_TreeShape ==
    Built =>
        \A id \in DOMAIN nodes :
            /\ nodes[id].len >= 1
            /\ nodes[id].len = 1 =>
                /\ nodes[id].left = PrimRef(objects[nodes[id].lo + 1])
                /\ nodes[id].right = PrimRef(objects[nodes[id].lo + 1])
            /\ nodes[id].len = 2 =>
                /\ nodes[id].left = PrimRef(objects[nodes[id].lo + 1])
                /\ nodes[id].right = PrimRef(objects[nodes[id].lo + 2])
            /\ nodes[id].len >= 3 =>
                /\ nodes[id].left.node
                /\ nodes[id].right.node
                /\ nodes[nodes[id].left.id].len \in 1..(nodes[id].len - 1)
                /\ nodes[nodes[id].right.id].len \in 1..(nodes[id].len - 1)
                /\ nodes[nodes[id].left.id].lo = nodes[id].lo
                /\ nodes[nodes[id].right.id].lo = nodes[id].lo + nodes[nodes[id].left.id].len
                /\ nodes[nodes[id].left.id].len + nodes[nodes[id].right.id].len = nodes[id].len

\* A tree over three primitives whose root was split by the SAH partition.
C6_Witness ==
    /\ pc = "built"
    /\ nodes[1].len = 3
    /\ nodes[1].how = "sah"
    /\ \E id \in DOMAIN nodes : nodes[id].len = 1
    /\ \E id \in DOMAIN nodes : nodes[id].len = 2

-----------------------------------------------------------------------------
(* Properties of the boxes *)

Boxes == {boxA, boxB, boxR}

Zero64 == B64(FALSE, <<0, 0, 0>>)

\* The least of the two mins and the greatest of the two maxes.
Span64(a, b) ==
    Interval(CHOOSE lo \in {a.min, b.min} : BLe(lo, a.min) /\ BLe(lo, b.min),
             CHOOSE hi \in {a.max, b.max} : BLe(a.max, hi) /\ BLe(b.max, hi))

IntervalWithin64(inner, outer) == BLe(outer.min, inner.min) /\ BLe(inner.max, outer.max)

\* C7: every Aabb the program produces, by Aabb::new, from_points,
\* from_boxes, + offset or as the constant EMPTY, has on every axis an
\* interval of size at least the padding epsilon 0.0001.
C7_EveryBoxAtLeastDelta ==
    \A b \in Boxes : \A n \in 0..2 : BLe(Delta64, size64(axis_interval(b, n)))

\* C7, amended: a box is the empty box, of size -inf on every axis, or it
\* has a positive size on every axis (an axis thinner than 0.0001 having
\* been widened by 0.00005 on both sides, in f64).
C7_BoxEmptyOrPositive ==
    \A b \in Boxes :
        \/ b = AabbEMPTY64
        \/ \A n \in 0..2 : BLt(Zero64, size64(axis_interval(b, n)))

\* A flat box built from points whose padded axis is, in f64, thinner than 0.0001.
C7_Witness ==
    /\ aop = "from_points"
    /\ BLt(Zero64, size64(boxA.z))
    /\ BLt(size64(boxA.z), Delta64)

\* C8: from_boxes(A, B) contains every point of A and of B and is the
\* tightest such box: on each axis its min is the smaller of the two mins
\* and its max the larger of the two maxes.
C8_UnionIsTightest ==
    aop = "from_boxes" =>
        \A n \in 0..2 :
            /\ IntervalWithin64(axis_interval(boxA, n), axis_interval(boxR, n))
            /\ IntervalWithin64(axis_interval(boxB, n), axis_interval(boxR, n))
            /\ axis_interval(boxR, n).min \in {axis_interval(boxA, n).min, axis_interval(boxB, n).min}
            /\ axis_interval(boxR, n).max \in {axis_interval(boxA, n).max, axis_interval(boxB, n).max}

\* C8, amended: from_boxes(A, B) contains every point of A and of B; an axis
\* on which the two intervals together span 0.0001 or more is exactly their
\* span, and a thinner one is that span widened by 0.00005 on both sides.
C8_UnionContainsAndPads ==
    aop = "from_boxes" =>
        \A n \in 0..2 :
            /\ IntervalWithin64(axis_interval(boxA, n), axis_interval(boxR, n))
            /\ IntervalWithin64(axis_interval(boxB, n), axis_interval(boxR, n))
            /\ axis_interval(boxR, n) =
                  IF BLt(size64(Span64(axis_interval(boxA, n), axis_interval(boxB, n))), Delta64)
                  THEN expand64(Span64(axis_interval(boxA, n), axis_interval(boxB, n)), Delta64)
                  ELSE Span64(axis_interval(boxA, n), axis_interval(boxB, n))

\* The union of two different boxes built from points, widened on an axis.
C8_Witness ==
    /\ aop = "from_boxes"
    /\ boxA # boxB
    /\ boxA # AabbEMPTY64
    /\ boxB # AabbEMPTY64
    /\ boxR.z.min \notin {boxA.z.min, boxB.z.min}

-----------------------------------------------------------------------------
(* Properties of render *)

\* The generator of thread th before the k-th row task to complete began:
\* its seed, stepped through the rows th rendered before.
RECURSIVE StreamBefore(_, _)
StreamBefore(th, k) ==
    IF k = 1 THEN seeds[th]
    ELSE IF order[k - 1][2] = th
         THEN RowFrom(order[k - 1][1], 0, StreamBefore(th, k - 1), <<>>).rng
         ELSE StreamBefore(th, k - 1)

C10_SameSeedsSamePixels ==
    (rpc = "done" /\ earlier # <<>> /\ earlier[1] = seeds) => out = earlier[2]

\* C18: no byte of the image, header included, is written to the output
\* before every row task has finished.
C18_NothingWrittenBeforeAllRows ==
    out # <<>> =>
        /\ remaining = 0
        /\ \A th \in Threads : task[th] = -1
        /\ \A j \in RowIndices : Len(rows[j]) = Camera.image_width
        /\ Len(order) = Camera.image_height

\* The header alone has been written, after two threads finished the rows,
\* the last row first.
C18_Witness ==
    /\ out = <<Header>>
    /\ order[1][1] = Camera.image_height - 1
    /\ \E k \in 2..Len(order) : order[k][2] # order[1][2]

-----------------------------------------------------------------------------
(* Properties of the path tracer *)

\* C11: with max_depth = 0 and a single sphere, every pixel is exactly the
\* background colour.
C11_DepthZeroIsBackground ==
    (ppc = "done" /\ cam.max_depth = 0 /\ world = "sphere") =>
        written = write_color(cam.background)

\* C11, amended: with max_depth = 0 and a single sphere, every pixel is black,
\* whatever the background: ray_color returns zero radiance for every camera
\* ray, without intersecting the scene.
C11_DepthZeroIsBlack ==
    (ppc = "done" /\ cam.max_depth = 0 /\ world = "sphere") =>
        /\ written = <<0, 0, 0>>
        /\ hits = 0

\* A pixel rendered with max_depth = 0 before a background that is not black.
C11_Witness ==
    /\ ppc = "done"
    /\ cam.max_depth = 0
    /\ world = "sphere"
    /\ write_color(cam.background) # <<0, 0, 0>>

\* C13: for every samples_per_pixel >= 1 the pixel takes sqrt_spp * sqrt_spp
\* samples, sqrt_spp = floor(sqrt(samples_per_pixel)) >= 1, and the divisor
\* of the average is the number of samples accumulated.
C13_DivisorIsSampleCount ==
    ppc # "init" =>
        /\ data.sqrt_spp >= 1
        /\ data.sqrt_spp * data.sqrt_spp <= cam.samples_per_pixel
        /\ (data.sqrt_spp + 1) * (data.sqrt_spp + 1) > cam.samples_per_pixel
        /\ sample <= data.sqrt_spp * data.sqrt_spp
        /\ ppc = "done" =>
            /\ sample = data.sqrt_spp * data.sqrt_spp
            /\ FMul(data.pixel_samples_scale, F(sample)) = F(1)

\* A pixel of one sample per pixel has been written.
C13_Witness ==
    /\ ppc = "done"
    /\ cam.samples_per_pixel = 1
    /\ sample = 1

\* C19: a path ends after at most max_depth bounces: each recursive call of
\* ray_color has the depth of its caller less one, and a call with depth <= 0
\* returns zero radiance without intersecting the scene.
C19_DepthBoundsThePath ==
    /\ Len(frames) <= cam.max_depth
    /\ hits <= cam.max_depth
    /\ \A k \in 1..Len(frames) : frames[k].depth = cam.max_depth - (k - 1)
    /\ call.kind = "call" => call.depth = cam.max_depth - Len(frames)
    /\ (call.kind = "ret" /\ call.why = "spent") =>
        /\ call.depth <= 0
        /\ call.color = Grey(F(0))
        /\ hits = Len(frames)
    /\ (call.kind = "ret" /\ call.depth <= 0) => call.why = "spent"

\* A path that scattered max_depth times and met the exhausted depth.
C19_Witness ==
    /\ call.kind = "ret"
    /\ call.why = "spent"
    /\ cam.max_depth > 1
    /\ Len(frames) = cam.max_depth

\* The throughput of the path at its k-th scatter: the product of the
\* attenuations up to and including it.
RECURSIVE Throughput(_)
Throughput(k) ==
    IF k = 0 THEN Grey(F(1)) ELSE Color3(FMul, Throughput(k - 1), frames[k].hit.attenuation)

\* The greatest channel of c, clamped to [0.05, 0.95].
ClampedMax(c) ==
    LET m == CHOOSE x \in {c[1], c[2], c[3]} : \A i \in 1..3 : FLe(c[i], x)
    IN  IF FLt(m, Norm(1, 20)) THEN Norm(1, 20)
        ELSE IF FGt(m, Norm(19, 20)) THEN Norm(19, 20) ELSE m

\* What a roulette draw and a scattered return have to satisfy, whatever the
\* colour the continuation probability is taken from; a mixture density that
\* is NaN leaves no equation to state.
RouletteReturns ==
    /\ (call.kind = "ret" /\ call.why = "roulette") =>
        /\ cam.max_depth - call.depth >= 5
        /\ call.color = call.hit.emitted
        /\ FGt(call.u, ClampedMax(call.hit.attenuation))
    /\ (call.kind = "ret" /\ call.why = "scattered") =>
        /\ cam.max_depth - call.depth < 5 => call.rr_prob = F(1)
        /\ (call.hit.scatter = "pdf" /\ IsNaN(call.hit.pdf_value))
           \/ Color3(FMul, Color3(FSub, call.color, call.hit.emitted),
                     Grey(IF call.hit.scatter = "skip_pdf" THEN call.rr_prob
                          ELSE FMul(call.rr_prob, call.hit.pdf_value)))
              = Color3(FMul, call.hit.attenuation,
                       Color3(FMul, call.child,
                              Grey(IF call.hit.scatter = "skip_pdf" THEN F(1)
                                   ELSE call.hit.scattering_pdf)))

\* C20: Russian roulette is applied at a bounce iff the bounce count is at
\* least 5; p is the greatest channel of the path's accumulated throughput
\* clamped to [0.05, 0.95]; a failed draw returns the emitted term only, a
\* survivor's scattered contribution is divided by p; before bounce 5 nothing
\* is divided.
C20_RouletteOnThroughput ==
    /\ \A k \in 1..Len(frames) :
        frames[k].rr_prob = IF k - 1 >= 5 THEN ClampedMax(Throughput(k)) ELSE F(1)
    /\ RouletteReturns

\* C20, amended: as C20, with p the greatest channel of the attenuation of
\* the scatter at that bounce, clamped to [0.05, 0.95].
C20_RouletteOnAttenuation ==
    /\ \A k \in 1..Len(frames) :
        frames[k].rr_prob = IF k - 1 >= 5 THEN ClampedMax(frames[k].hit.attenuation) ELSE F(1)
    /\ RouletteReturns

\* A path survived the roulette of bounce 5 or later, and what came back from
\* the scattered ray, not black, was divided by p.
C20_Witness ==
    /\ call.kind = "ret"
    /\ call.why = "scattered"
    /\ cam.max_depth - call.depth >= 5
    /\ call.child # Grey(F(0))
    /\ call.color # Scattered([hit |-> call.hit, rr_prob |-> F(1)], call.child)

-----------------------------------------------------------------------------
(* Properties of main, the writers and the overrides *)

\* The lines of a stream that the CPU render wrote.
CpuLines(stream) == SelectSeq(stream, LAMBDA l : l.by = "cpu")

\* C12: after the header Camera::render writes exactly image_width x
\* image_height pixel triples, and for every pixel colour (negative, zero,
\* above 1, not finite) write_color emits three integers in 0..255.
C12_HeaderThenAllTriples ==
    /\ \A l \in {(bufw \o stdout)[k] : k \in 1..(Len(bufw) + Len(stdout))} :
        (l.by = "cpu" /\ l.color # <<>>) =>
            /\ Len(l.text) = 3
            /\ \A k \in 1..3 : l.text[k] \in 0..255
    /\ (mpc = "exit" /\ cpu_book # "none" /\ "cpu" \notin failed) =>
        /\ Len(CpuLines(stdout)) = 1 + Camera.image_width * Camera.image_height
        /\ CpuLines(stdout)[1].text = <<"P3", Camera.image_width, Camera.image_height, 255>>
        /\ \A k \in 1..(Camera.image_width * Camera.image_height) :
            CpuLines(stdout)[k + 1].color = image[k]

\* A CPU render has written its whole image, with a pixel of channels +inf,
\* -inf and NaN, one with a negative and a zero channel, one with 1 and 2.
C12_Witness ==
    /\ mpc = "exit"
    /\ cpu_book = "therestofyourlife"
    /\ failed = {}
    /\ {image[k] : k \in 1..Len(image)} = Colors

\* C14: for every averaged colour, negative, above 1, infinite and NaN
\* included, write_ppm_from_accum emits the channel values that write_color
\* emits for it.
C14_SameBytesAsWriteColor ==
    \A k \in 1..Len(stdout) :
        (stdout[k].by = "gpu" /\ stdout[k].color # <<>>) =>
            stdout[k].text = write_color(stdout[k].color)

\* C15: whenever a write to the output stream fails, the render is aborted
\* with a message and no image data is written to the stream afterwards.
C15_FailedWriteEndsTheImage ==
    /\ [][failed # {} => stdout' = stdout]_vars
    /\ []((failed # {} /\ mpc \in {"exit", "panic"}) =>
            \E k \in 1..Len(stderr) :
                stderr[k] \in {"failed to write pixel data", "GPU render failed: write"})

\* C16: with the GPU backend selected, when the GPU render returns an error
\* or the book is not one the GPU renders, main reports it and runs the CPU
\* render of the requested book; when the GPU render succeeds no CPU render
\* runs.
C16_GpuFallsBackToCpu ==
    /\ gpu_result = "ok" =>
        /\ cpu_book = "none"
        /\ mpc = "exit"
        /\ CpuLines(bufw \o stdout) = <<>>
    /\ cpu_book # "none" => cpu_book = argv.book
    /\ gpu_result # "none" => (argv.backend = "gpu" /\ argv.book = "inoneweekend")
    /\ (mpc \in {"write", "unwind", "exit", "panic"} /\ argv.backend = "gpu"
            /\ argv.book # "unknown" /\ gpu_result # "ok" /\ writer # "gpu") =>
        /\ cpu_book = argv.book
        /\ writer = "cpu"
        /\ \E k \in 1..Len(stderr) :
            stderr[k] \in {"Falling back to CPU.",
                           "GPU backend currently supports in_one_weekend only. Falling back to CPU."}
        /\ gpu_result = "err" <=> argv.book = "inoneweekend"

\* The GPU render found no adapter and the CPU render of in_one_weekend has
\* written its image.
C16_Witness ==
    /\ mpc = "exit"
    /\ gpu_result = "err"
    /\ cpu_book = "inoneweekend"
    /\ stdout # <<>>
    /\ \A k \in 1..Len(stdout) : stdout[k].by = "cpu"

\* C17: after the overrides were applied, each field whose override is set,
\* background included, has the override's value in every renderer, and each
\* field whose override is unset has the default of the scene.
C17_SetFieldsTakeTheOverride ==
    built.renderer # "none" =>
        \A f \in Fields :
            IF overrides[f] # <<>>
            THEN f \in DOMAIN built.camera /\ built.camera[f] = overrides[f][1]
            ELSE f \in DOMAIN built.camera => built.camera[f] = Defaults(built.renderer)[f]

-----------------------------------------------------------------------------
(* Properties of the densities and of the scatter records *)

\* C21: in the importance-sampled branch a mixture density that is zero,
\* negative or NaN makes ray_color return the emission alone: no recursive
\* call is made for such a hit and nothing is divided by the density.
C21_NoRecursionWithoutDensity ==
    /\ \A k \in 1..Len(frames) :
        frames[k].hit.scatter = "pdf" => FGt(frames[k].hit.pdf_value, F(0))
    /\ (call.kind = "ret" /\ call.why = "scattered" /\ call.hit.scatter = "pdf") =>
        FGt(call.hit.pdf_value, F(0))

\* C22: Metal and Dielectric give records with skip_pdf and no pdf, Lambertian
\* and Isotropic records without skip_pdf and with a pdf, DiffuseLight and
\* EmptyMaterial no record; skip_pdf is set exactly when there is no pdf, and
\* ray_color never meets a record without skip_pdf and without a pdf.
C22_SkipPdfIffNoPdf ==
    /\ \A k \in 1..Len(frames) :
        /\ frames[k].hit.skip_pdf <=> frames[k].hit.pdf_ptr = "None"
        /\ frames[k].hit.mat \in {"Metal", "Dielectric"} <=> frames[k].hit.skip_pdf
        /\ frames[k].hit.mat \in {"Lambertian", "Isotropic"} <=> ~frames[k].hit.skip_pdf
    /\ call.kind = "ret" =>
        /\ call.why # "no pdf"
        /\ call.why = "emitted" => call.hit.mat \in {"DiffuseLight", "EmptyMaterial"}
        /\ call.why \in {"roulette", "no density", "scattered"} =>
            /\ call.hit.mat \in {"Lambertian", "Metal", "Dielectric", "Isotropic"}
            /\ call.hit.skip_pdf <=> call.hit.pdf_ptr = "None"
            /\ call.hit.skip_pdf <=> call.hit.mat \in {"Metal", "Dielectric"}

\* An Isotropic hit scattered through its pdf, and the call has returned.
C22_Witness ==
    /\ call.kind = "ret"
    /\ call.why = "scattered"
    /\ call.hit.mat = "Isotropic"
    /\ ~call.hit.skip_pdf
    /\ call.hit.pdf_ptr = "SpherePdf"

-----------------------------------------------------------------------------
(* Properties of the split of build *)

\* The low end of an object's box on the axis of the split.
BoxMin(id) == axis_interval(bounding_box(id), cut.axis).min

\* The bucket of an object in the split.
BucketOf(id) == BucketIndex(id, cut.axis, cut.centroid_min, cut.centroid_max)

\* The objects of the slice, in its order, whose bucket is within lo..hi.
InBuckets(lo, hi) == SelectSeq(cut.objs, LAMBDA id : BucketOf(id) >= lo /\ BucketOf(id) <= hi)

\* The SAH cost of the boundary behind bucket i.
CostAt(i) ==
    FAdd(FMul(surface_area(UnionOfBoxes(InBuckets(0, i), 1, AabbEMPTY)),
              F(Len(InBuckets(0, i)))),
         FMul(surface_area(UnionOfBoxes(InBuckets(i + 1, NUM_BUCKETS - 1), 1, AabbEMPTY)),
              F(Len(InBuckets(i + 1, NUM_BUCKETS - 1)))))

\* The boundaries with objects on both sides.
Boundaries ==
    {i \in 0..(NUM_BUCKETS - 2) :
        InBuckets(0, i) # <<>> /\ InBuckets(i + 1, NUM_BUCKETS - 1) # <<>>}

\* The slice holds the same objects after the split as before.
Permuted ==
    /\ Len(cut.res.objs) = Len(cut.objs)
    /\ \A k \in 1..Len(cut.objs) : \E m \in 1..Len(cut.objs) : cut.res.objs[m] = cut.objs[k]

\* The count of the buckets 0..i.
RECURSIVE LeftCount(_)
LeftCount(i) == IF i < 0 THEN 0 ELSE cut.buckets[i].count + LeftCount(i - 1)

\* C23: in the median fallback the objects are first sorted in non-decreasing
\* order of their centroid on the chosen axis, objects of equal centroid keep
\* their relative order, and the slice is split at n / 2.
C23_MedianSortsByCentroid ==
    (cut.pc = "split" /\ cut.res.how # "sah") =>
        /\ Permuted
        /\ \A i \in 1..Len(cut.objs), j \in 1..Len(cut.objs) :
            i < j =>
                /\ FLe(centroid(cut.res.objs[i], cut.axis), centroid(cut.res.objs[j], cut.axis))
                /\ centroid(cut.res.objs[i], cut.axis) = centroid(cut.res.objs[j], cut.axis)
                    => cut.res.objs[i] < cut.res.objs[j]
        /\ cut.res.mid = Len(cut.objs) \div 2

\* C23, amended: in the median fallback the objects are first sorted in
\* non-decreasing order of the low end of their bounding box on the chosen
\* axis, objects of equal low end keep their relative order, and the slice is
\* split at n / 2.
C23_MedianSortsByBoxMin ==
    (cut.pc = "split" /\ cut.res.how # "sah") =>
        /\ Permuted
        /\ \A i \in 1..Len(cut.objs), j \in 1..Len(cut.objs) :
            i < j =>
                /\ FLe(BoxMin(cut.res.objs[i]), BoxMin(cut.res.objs[j]))
                /\ BoxMin(cut.res.objs[i]) = BoxMin(cut.res.objs[j])
                    => cut.res.objs[i] < cut.res.objs[j]
        /\ cut.res.mid = Len(cut.objs) \div 2

\* The median fallback ran and its sort moved objects of equal centroid.
C23_Witness ==
    /\ cut.pc = "split"
    /\ cut.res.how = "degenerate centroids"
    /\ cut.res.objs # cut.objs

\* C24: the objects are binned by centroid on the longest axis into 12 buckets
\* (index 0..11); of the 11 boundaries those with an empty side are skipped and
\* the one of least cost is selected, the lowest index among equal costs.
C24_LeastCostBoundary ==
    (cut.pc = "split" /\ cut.res.how # "degenerate centroids") =>
        /\ cut.axis = longest_axis(UnionOfBoxes(cut.objs, 1, AabbEMPTY))
        /\ DOMAIN cut.buckets = 0..11
        /\ \A b \in 0..11 : cut.buckets[b].count = Len(InBuckets(b, b))
        /\ \A k \in 1..Len(cut.objs) : BucketOf(cut.objs[k]) \in 0..11
        /\ Boundaries \subseteq 0..10
        /\ IF Boundaries = {} THEN cut.best.cost = INFINITY
           ELSE /\ cut.best.split \in Boundaries
                /\ cut.best.cost = CostAt(cut.best.split)
                /\ \A i \in Boundaries :
                    /\ FLe(cut.best.cost, CostAt(i))
                    /\ i < cut.best.split => FLt(cut.best.cost, CostAt(i))

\* Two boundaries have the least cost, and some boundary costs more.
C24_Witness ==
    /\ cut.pc = "split"
    /\ cut.res.how = "sah"
    /\ \E i \in Boundaries : i > cut.best.split /\ CostAt(i) = cut.best.cost
    /\ \E i \in Boundaries : FGt(CostAt(i), cut.best.cost)

\* C25: after the partition with split s the objects before mid are exactly
\* those whose bucket is at most s, the objects from mid on those whose bucket
\* is greater, and the slice holds the same objects as before.
C25_PartitionByBucket ==
    (cut.pc = "split" /\ cut.res.how = "sah") =>
        /\ Permuted
        /\ \A k \in 1..Len(cut.objs) :
            k <= cut.res.mid <=> BucketOf(cut.res.objs[k]) <= cut.best.split

\* The partition swapped objects: an object left of the split came after one
\* right of it.
C25_Witness ==
    /\ cut.pc = "split"
    /\ cut.res.how = "sah"
    /\ cut.res.objs # cut.objs
    /\ \E i \in 1..Len(cut.objs), j \in 1..Len(cut.objs) :
        i < j /\ BucketOf(cut.objs[i]) > cut.best.split /\ BucketOf(cut.objs[j]) <= cut.best.split

\* C30: when the scan finds a split of finite cost, mid after the partition is
\* the left count of that split, so 0 < mid < n and the fallback for a
\* degenerate partition is not taken.
C30_MidIsLeftCount ==
    (cut.pc = "split" /\ cut.res.how # "degenerate centroids" /\ IsFinite(cut.best.cost)) =>
        /\ cut.res.how = "sah"
        /\ cut.res.mid = LeftCount(cut.best.split)
        /\ 0 < cut.res.mid
        /\ cut.res.mid < Len(cut.objs)

\* A split of finite cost with several buckets on its left.
C30_Witness ==
    /\ cut.pc = "split"
    /\ IsFinite(cut.best.cost)
    /\ cut.res.how = "sah"
    /\ cut.best.split > 0
    /\ cut.res.mid = 2

-----------------------------------------------------------------------------
(* Properties of the list aggregate and of the tree as a whole *)

\* C26: after any sequence of add and clear the cached bounding box of a
\* HittableList is the union of the boxes of its members, the empty box when it
\* has none, whatever the order of the adds; in both books.
C26_ListBoxIsUnionOfMembers ==
    /\ list.bbox = UnionOfBoxes(list.objects, 1, AabbEMPTY)
    /\ weekend.bbox = UnionOfBoxes(weekend.objects, 1, AabbEMPTY)

\* The child slots of the leaves that hold the primitive p.
SlotsOf(p) ==
    {<<id, "left">> : id \in {i \in DOMAIN nodes : nodes[i].left = PrimRef(p)}}
    \cup {<<id, "right">> : id \in {i \in DOMAIN nodes : nodes[i].right = PrimRef(p)}}

\* The same, a leaf built from a single primitive counted once.
LeavesOf(p) ==
    {<<id, "left">> : id \in {i \in DOMAIN nodes : nodes[i].left = PrimRef(p)}}
    \cup {<<id, "right">> :
            id \in {i \in DOMAIN nodes : nodes[i].right = PrimRef(p) /\ nodes[i].len # 1}}

\* The places the primitive p has in the list the tree is built from.
AddedAt(p) == {k \in DOMAIN list.objects : list.objects[k] = p}

\* The nodes of the tree under a child, the child included.
RECURSIVE NodesBeneath(_)
NodesBeneath(ref) ==
    IF ref.node
    THEN {ref.id} \cup NodesBeneath(nodes[ref.id].left) \cup NodesBeneath(nodes[ref.id].right)
    ELSE {}

\* C27: the tree built from two or more primitives holds every input primitive
\* in exactly one leaf position and nothing else; built from a single
\* primitive it holds it exactly twice, as both children of the root.
C27_EachPrimitiveInOneSlot ==
    Built =>
        /\ NodesBeneath(NodeRef(1)) = DOMAIN nodes
        /\ \A p \in PrimIds :
            Cardinality(SlotsOf(p)) =
                IF Len(list.objects) = 1 THEN 2 * Cardinality(AddedAt(p))
                ELSE Cardinality(AddedAt(p))

\* C27, amended: the leaves of the tree hold every input primitive exactly once
\* and nothing else, where a leaf built from a single primitive, which has it
\* as both children, counts as holding it once; a tree built from a single
\* primitive is such a leaf.
C27_EachPrimitiveInOneLeaf ==
    Built =>
        /\ NodesBeneath(NodeRef(1)) = DOMAIN nodes
        /\ \A p \in PrimIds : Cardinality(LeavesOf(p)) = Cardinality(AddedAt(p))
        /\ \A id \in DOMAIN nodes :
            nodes[id].len = 1 => (~nodes[id].left.node /\ nodes[id].right = nodes[id].left)
        /\ Len(list.objects) = 1 => DOMAIN nodes = {1} /\ nodes[1].len = 1

\* A tree over three primitives: one of them is alone in its leaf, as both
\* children.
C27_Witness ==
    /\ pc = "built"
    /\ Len(list.objects) = 3
    /\ \E id \in DOMAIN nodes :
        /\ nodes[id].len = 1
        /\ id # 1
        /\ nodes[id].left = nodes[id].right

-----------------------------------------------------------------------------
(* Properties of the pass loops and of the rows-remaining counter *)

\* C28: in the pass loops of both GPU renderers, for every total sample count
\* of 1 or more, there are ceil(total_spp / spp_per_pass) passes, every pass
\* renders from 1 to spp_per_pass samples, total_spp - pass_index *
\* spp_per_pass never goes below zero, and the samples of the passes sum to
\* total_spp, the divisor given to write_ppm_from_accum.
C28_PassesSumToTotal ==
    passes.pc # "none" =>
        /\ passes.total_spp >= 1
        /\ passes.pass_count * passes.spp_per_pass >= passes.total_spp
        /\ (passes.pass_count - 1) * passes.spp_per_pass < passes.total_spp
        /\ ~passes.underflow
        /\ passes.pass_index >= 1 => passes.pass_spp \in 1..passes.spp_per_pass
        /\ passes.pass_index <= passes.pass_count
        /\ passes.pc = "written" =>
            /\ passes.pass_index = passes.pass_count
            /\ passes.samples = passes.total_spp
            /\ passes.divisor = passes.total_spp

\* A render of the wgpu loop in several passes, the last one short, was written.
C28_Witness ==
    /\ passes.pc = "written"
    /\ passes.backend = "wgpu"
    /\ passes.pass_count >= 3
    /\ passes.pass_spp < passes.spp_per_pass
    /\ passes.samples = passes.divisor

\* C29: in every interleaving of the row tasks the rows-remaining counter
\* starts at image_height, goes down by one with each row and never below
\* zero, gives each task a value of its own in 0..image_height-1 after its
\* decrement, so that one task sees 0, and is 0 when all tasks have finished.
C29_RowsRemainingCountsDown ==
    rpc # "idle" =>
        /\ remaining >= 0
        /\ remaining = Camera.image_height - Len(order)
        /\ \A k \in 1..Len(order) :
            /\ order[k][3] \in 0..(Camera.image_height - 1)
            /\ \A m \in 1..Len(order) : m # k => order[m][3] # order[k][3]
        /\ Len(order) = Camera.image_height =>
            /\ remaining = 0
            /\ Cardinality({k \in 1..Len(order) : order[k][3] = 0}) = 1

\* All rows are done, the last row index first and by two threads: the task of
\* the first row index is the one that saw 0.
C29_Witness ==
    /\ rpc = "map"
    /\ Len(order) = Camera.image_height
    /\ order[1][1] = Camera.image_height - 1
    /\ order[1][2] # order[Len(order)][2]
    /\ order[Len(order)][1] = 0
    /\ order[Len(order)][3] = 0
    /\ remaining = 0

====
